---- MODULE Spec2Model ----
(***************************************************************************)
(* prism: localization drift detector.  Model of src/main.py.              *)
(*                                                                         *)
(* Strings are TLA+ strings; the Python string methods the program uses    *)
(* (startswith, endswith, rstrip, lower, "in") are operators computed      *)
(* character by character.  The browser, the crawled site and the vision   *)
(* analyzer are the environment: every navigation, capture and analyzer    *)
(* call has each outcome the collaborator can produce.                     *)
(***************************************************************************)
EXTENDS Integers, Sequences, FiniteSets, TLC

(***************************************************************************)
(* Bounds of the model.                                                    *)
(***************************************************************************)
\* Spec draws max_pages from 0..MaxPagesBound for one target locale, and from
\* one page less for each further target locale.
MaxPagesBound == 3
\* max_pages of the runs on the six-route site of SpecDeep.
DeepPages == 6

(***************************************************************************)
(* Python str methods.                                                     *)
(***************************************************************************)
CharAt(s, i) == SubSeq(s, i, i)

StartsWith(s, p) == Len(p) <= Len(s) /\ SubSeq(s, 1, Len(p)) = p

EndsWith(s, p) == Len(p) <= Len(s) /\ SubSeq(s, Len(s) - Len(p) + 1, Len(s)) = p

RECURSIVE RStrip(_, _)
RStrip(s, c) ==
    IF s # "" /\ CharAt(s, Len(s)) = c
    THEN RStrip(SubSeq(s, 1, Len(s) - 1), c)
    ELSE s

UpperChars == "ABCDEFGHIJKLMNOPQRSTUVWXYZ"
LowerChars == "abcdefghijklmnopqrstuvwxyz"

LowerChar(c) ==
    IF \E i \in 1..Len(UpperChars) : CharAt(UpperChars, i) = c
    THEN LET i == CHOOSE k \in 1..Len(UpperChars) : CharAt(UpperChars, k) = c
         IN  CharAt(LowerChars, i)
    ELSE c

\* LowerFrom[s, i] is s[i..] in lower case.
LowerFrom[s \in STRING, i \in Nat] ==
    IF i > Len(s) THEN "" ELSE LowerChar(CharAt(s, i)) \o LowerFrom[s, i + 1]

Lower(s) == LowerFrom[s, 1]

\* Python's  needle in s
Contains(s, needle) ==
    \E i \in 1..(Len(s) - Len(needle) + 1) :
        SubSeq(s, i, i + Len(needle) - 1) = needle

\* Index of the first occurrence of sub in s at or after position from, 0 if
\* there is none (Python's s.find(sub, from - 1) + 1).
RECURSIVE Find(_, _, _)
Find(s, sub, from) ==
    IF from + Len(sub) - 1 > Len(s) THEN 0
    ELSE IF SubSeq(s, from, from + Len(sub) - 1) = sub THEN from
    ELSE Find(s, sub, from + 1)

(***************************************************************************)
(* urllib.parse.urlparse, for URLs of the form                             *)
(* scheme://netloc/path?query#fragment  and for bare paths with or         *)
(* without a query and a fragment (no ;parameters).                        *)
(***************************************************************************)
SchemeSep == "://"

\* The position of the first "?" or "#" of s at or after position from, the
\* position after the end of s if there is none.
RECURSIVE QueryStart(_, _)
QueryStart(s, from) ==
    IF from > Len(s) THEN from
    ELSE IF CharAt(s, from) \in {"?", "#"} THEN from
    ELSE QueryStart(s, from + 1)

\* The netloc and the path of v, a URL without query and fragment.
SplitNetloc(v) ==
    LET sep == Find(v, SchemeSep, 1)
        netloc_start == sep + Len(SchemeSep)
        path_start == Find(v, "/", netloc_start)
    IN  IF sep = 0 THEN [netloc |-> "", path |-> v]
        ELSE IF path_start = 0
             THEN [netloc |-> SubSeq(v, netloc_start, Len(v)), path |-> ""]
             ELSE [netloc |-> SubSeq(v, netloc_start, path_start - 1),
                   path |-> SubSeq(v, path_start, Len(v))]

\* The netloc and the path of u.
UrlParse(u) ==
    CHOOSE parsed \in { SplitNetloc(v) :
                          v \in {SubSeq(u, 1, QueryStart(u, 1) - 1)} } : TRUE

(***************************************************************************)
(* Crawler helpers.                                                        *)
(***************************************************************************)
\* Mutant: the prefix is matched without the slash that ends the segment.
StripLocalePrefixPartial(path, locale) ==
    LET prefix == "/" \o locale
    IN  IF path = prefix THEN "/"
        ELSE IF StartsWith(path, prefix)
             THEN SubSeq(path, Len(prefix) + 1, Len(path))
             ELSE path

_strip_locale_prefix(path, locale) ==
    LET prefix == "/" \o locale
    IN  IF path = prefix THEN "/"
        ELSE IF StartsWith(path, prefix \o "/")
             THEN SubSeq(path, Len(prefix) + 1, Len(path))
             ELSE path

\* Mutant: the trailing slashes of the base URL are kept.
BuildLocaleUrlKeepsSlash(base, locale, r) == base \o "/" \o locale \o r

_build_locale_url(base, locale, r) == RStrip(base, "/") \o "/" \o locale \o r

RECURSIVE LStrip(_, _)
LStrip(s, c) ==
    IF s # "" /\ CharAt(s, 1) = c THEN LStrip(SubSeq(s, 2, Len(s)), c) ELSE s

\* str.replace(old, new) for a one-character old
RECURSIVE Replace(_, _, _)
Replace(s, old, new) ==
    IF s = "" THEN ""
    ELSE (IF CharAt(s, 1) = old THEN new ELSE CharAt(s, 1))
             \o Replace(SubSeq(s, 2, Len(s)), old, new)

_safe_filename(r) ==
    LET cleaned == LStrip(RStrip(r, "/"), "/")
    IN  IF cleaned = "" THEN "index" ELSE Replace(cleaned, "/", "_")

\* Mutant: the screenshot file is named after the route alone.
ScreenshotNameWithoutLocale(r, locale) == _safe_filename(r) \o ".png"

\* The file of screenshot_dir a capture of route r in locale is written to:
\* f"{safe_name}_{locale}.png"
ScreenshotName(r, locale) == _safe_filename(r) \o "_" \o locale \o ".png"

\* The body of the loop over hrefs: the path a same-domain href (parsed) is
\* folded to.
NormalizePath(parsed) ==
    LET p0 == IF parsed.path = "" THEN "/" ELSE parsed.path
        p1 == IF ~StartsWith(p0, "/") THEN "/" \o p0 ELSE p0
    IN  IF p1 # "/" /\ EndsWith(p1, "/") THEN RStrip(p1, "/") ELSE p1

\* The test that keeps a parsed href: not (netloc and netloc != base_domain).
SameDomain(parsed, base_domain) ==
    ~(parsed.netloc # "" /\ parsed.netloc # base_domain)

_extract_same_domain_links(hrefs, base) ==
    UNION { { NormalizePath(parsed) :
                parsed \in { x \in { UrlParse(h) : h \in hrefs } :
                                 SameDomain(x, base_domain) } } :
            base_domain \in {UrlParse(base).netloc} }

\* The link discovery of crawl_and_analyze up to the visited test: the routes
\* of the links of a page, each normalized path stripped of the source locale.
NormalizedLinks(hrefs, base, locale) ==
    { _strip_locale_prefix(link_path, locale) :
        link_path \in _extract_same_domain_links(hrefs, base) }

(***************************************************************************)
(* The analyzer's verdict test (the  if  after analyze_localization).      *)
(***************************************************************************)
NoIssueSentinel == "no localization issues"

\* Mutant: the phrase is looked for in the answer as it is written.
ReportsDriftCaseSensitive(analysis) == ~Contains(analysis, NoIssueSentinel)

ReportsDrift(analysis) ==
    \A lowered \in {Lower(analysis)} : ~Contains(lowered, NoIssueSentinel)

(***************************************************************************)
(* Environment: the crawled site.  A site serves, for a locale and a       *)
(* route, a page whose anchors are the hrefs SiteLinks gives; its links    *)
(* carry the locale of the page they are on.                               *)
(***************************************************************************)
Origin == "https://example.com"

Abs(locale, p) == Origin \o "/" \o locale \o p

SiteLinks(s, locale, r) ==
    CASE s = "two" ->
           IF r = "/" THEN {Abs(locale, "/about")} ELSE {}
      [] s = "cycle" ->
           IF r = "/" THEN {Abs(locale, ""), Abs(locale, "/a/")}
           ELSE IF r = "/a"
                THEN {Abs(locale, "/"), Abs(locale, "/a"), "https://other.com/x"}
                ELSE {}
      [] s = "dup" ->
           IF r = "/" THEN {Abs(locale, "/a"), Abs(locale, "/b"), Origin \o "/a"}
           ELSE IF r = "/a" THEN {Abs(locale, "/b"), Abs(locale, "/c")}
           ELSE IF r = "/b" THEN {Abs(locale, "/a")}
           ELSE {}
      [] s = "grow" ->
           LET rr == IF r = "/" THEN "" ELSE r
           IN  {Abs(locale, rr \o "/m"), Abs(locale, rr \o "/n")}
      [] s = "deep" ->
           IF r = "/" THEN {Abs(locale, "/a"), Abs(locale, "/b")}
           ELSE IF r = "/a" THEN {Abs(locale, "/x")}
           ELSE IF r = "/b" THEN {Abs(locale, "/d")}
           ELSE IF r = "/d" THEN {Abs(locale, "/x"), Abs(locale, "/y")}
           ELSE {}
      [] s = "names" ->
           \* routes whose screenshots get the same file names
           IF r = "/"
           THEN {Abs(locale, "/index"), Abs(locale, "/a/b"), Abs(locale, "/a_b")}
           ELSE {}
      [] s = "slashes" ->
           \* "" is the route the crawl makes of a path of slashes only; its
           \* URL is the URL of the root page without the trailing slash
           IF r \in {"/", ""}
           THEN {Origin \o "//", Abs(locale, ""), Abs(locale, "/a//"),
                 Origin \o "/"}
           ELSE IF r = "/a" THEN {Abs(locale, "//"), Abs(locale, "//b/")}
           ELSE {}
      [] OTHER -> {}

Sites == {"two", "cycle", "dup", "grow"}

BaseUrls == {"https://example.com", "https://example.com/"}

TargetConfigs == {<<"fr">>, <<"fr", "es">>}

\* What the analyzer can answer.
Responses == {"No localization issues detected.", "- Header: text truncated"}

\* The verdict test on each answer.
DriftVerdict == [r \in Responses |-> ReportsDrift(r)]

(***************************************************************************)
(* State of one run of the program: of crawl_and_analyze for the crawl     *)
(* command, of ftl_analyze for the ftl-analyze command.                    *)
(***************************************************************************)
VARIABLES
    command,                     \* the CLI command of the run
    base_url, source_locale, target_locales, max_pages,  \* the arguments
    site, api_key,               \* environment: the site, GEMINI_API_KEY set
    issues, visited, queue, pages_crawled,               \* the locals
    route, target_idx,           \* loop variables: current route, position
                                 \* of target_locale in target_locales
    page,                        \* the document loaded in the browser page
    pc,                          \* position in the function
    navLog,                      \* history: every page.goto / screenshot try
    calls,                       \* history: every analyze_localization call
    dequeued,                    \* history: number of queue.popleft() calls
    screenshots_dir, fs,         \* ftl_analyze: its argument, the file tree
    groups,                      \* ftl_analyze: result of _group_device_dirs
    device_idx, file_idx,        \* ftl_analyze: positions in groups.items()
                                 \* and in sorted(matched)
    source_pngs, matched,        \* ftl_analyze: locals
    skipLog,                     \* history: every "Skipped n unmatched" line
    callee_in, callee_out        \* a direct call of one helper function: its
                                 \* name and arguments, <<its result>>

args == <<command, base_url, source_locale, target_locales, max_pages, site,
          api_key>>

\* The variables only ftl_analyze uses.
ftl == <<screenshots_dir, fs, groups, device_idx, file_idx, source_pngs,
         matched, skipLog>>

\* The variables only crawl_and_analyze uses.
crawl == <<base_url, max_pages, site, visited, queue, pages_crawled, route,
           page, navLog, dequeued>>

\* The variables only a direct call of a helper uses.
unit == <<callee_in, callee_out>>

vars == <<command, base_url, source_locale, target_locales, max_pages, site,
          api_key, issues, visited, queue, pages_crawled, route, target_idx,
          page, pc, navLog, calls, dequeued, screenshots_dir, fs, groups,
          device_idx, file_idx, source_pngs, matched, skipLog, callee_in,
          callee_out>>

BlankPage == [url |-> "about:blank", locale |-> "", route |-> ""]

InitLocals ==
    /\ issues = <<>>
    /\ visited = {}
    /\ queue = <<"/">>
    /\ pages_crawled = 0
    /\ route = ""
    /\ target_idx = 0
    /\ page = BlankPage
    /\ pc = "loop"
    /\ navLog = <<>>
    /\ calls = <<>>
    /\ dequeued = 0

\* A path is a tuple of names; no path, no directory index.
None == <<>>

EmptyDict == [k \in {} |-> None]

EmptyGroups == [order |-> <<>>, dirs |-> EmptyDict]

\* ftl_analyze is not running.
FtlIdle ==
    /\ screenshots_dir = None
    /\ fs = {}
    /\ groups = EmptyGroups
    /\ device_idx = 0
    /\ file_idx = 0
    /\ source_pngs = {}
    /\ matched = <<>>
    /\ skipLog = <<>>

\* No helper is called directly.
UnitIdle ==
    /\ callee_in = [fn |-> ""]
    /\ callee_out = <<>>

Init ==
    /\ command = "crawl"
    /\ FtlIdle
    /\ UnitIdle
    /\ base_url \in BaseUrls
    /\ source_locale = "en"
    /\ target_locales \in TargetConfigs
    /\ max_pages \in 0..(MaxPagesBound + 1 - Len(target_locales))
    /\ site \in Sites
    /\ api_key \in BOOLEAN
    /\ InitLocals

(***************************************************************************)
(* crawl_and_analyze, one action per step of its loop.                     *)
(***************************************************************************)
\* Mutant: the budget test is off by one.
LoopCondOffByOne(q, n, m) == q # <<>> /\ n <= m

\* Mutant: the loop runs until the frontier is empty, whatever the budget.
LoopCondNoBudget(q, n, m) == q # <<>>

\* while queue and pages_crawled < max_pages
LoopCond(q, n, m) == q # <<>> /\ n < m

\* Mutant: the route is never added to the visited set.
MarkVisitedNever(v, r) == v

\* visited.add(route)
MarkVisited(v, r) == v \cup {r}

\* Mutant: the frontier is used as a stack.
PopRight(q) == [item |-> q[Len(q)], rest |-> SubSeq(q, 1, Len(q) - 1)]

\* queue.popleft()
PopLeft(q) == [item |-> Head(q), rest |-> Tail(q)]

\* Position after the body of the for loop for target number i has ended.
AfterTarget(i) == IF i < Len(target_locales) THEN "target" ELSE "loop"

\* The orders in which a Python set can be iterated.
Orderings(S) ==
    { o \in [1..Cardinality(S) -> S] :
        \A i, j \in 1..Cardinality(S) : i # j => o[i] # o[j] }

\* Mutant: a dequeued route that is already visited is counted as well.
DequeueCountsDiscards ==
    /\ pc = "loop"
    /\ LoopCond(queue, pages_crawled, max_pages)
    /\ route' = PopLeft(queue).item
    /\ queue' = PopLeft(queue).rest
    /\ pages_crawled' = pages_crawled + 1
    /\ IF route' \in visited
       THEN /\ pc' = "loop"
            /\ UNCHANGED visited
       ELSE /\ visited' = MarkVisited(visited, route')
            /\ pc' = "source"
    /\ dequeued' = dequeued + 1
    /\ UNCHANGED <<args, ftl, unit, issues, target_idx, page, navLog, calls>>

Dequeue ==
    /\ pc = "loop"
    /\ LoopCond(queue, pages_crawled, max_pages)
    /\ route' = PopLeft(queue).item
    /\ queue' = PopLeft(queue).rest
    /\ IF route' \in visited
       THEN /\ pc' = "loop"
            /\ UNCHANGED <<visited, pages_crawled>>
       ELSE /\ visited' = MarkVisited(visited, route')
            /\ pages_crawled' = pages_crawled + 1
            /\ pc' = "source"
    /\ dequeued' = dequeued + 1
    /\ UNCHANGED <<args, ftl, unit, issues, target_idx, page, navLog, calls>>

Return ==
    /\ pc = "loop"
    /\ ~LoopCond(queue, pages_crawled, max_pages)
    /\ pc' = "done"
    /\ UNCHANGED <<args, ftl, unit, issues, visited, queue, pages_crawled, route,
                   target_idx, page, navLog, calls, dequeued>>

\* page.goto(url) then page.screenshot(): both succeed, or goto raises, or
\* goto succeeds and screenshot raises.
NavOutcomes == {"ok", "goto_failed", "screenshot_failed"}

Navigate(side, locale, outcome) ==
    LET url == _build_locale_url(base_url, locale, route)
    IN  /\ page' = IF outcome = "goto_failed" THEN BlankPage
                   ELSE [url |-> url, locale |-> locale, route |-> route]
        /\ navLog' = Append(navLog, [side |-> side, locale |-> locale,
                                     route |-> route, url |-> url,
                                     file |-> ScreenshotName(route, locale),
                                     ok |-> (outcome = "ok")])

\* Mutant: the  except  branch of the source try falls through.
SourceNavFallsThrough ==
    /\ pc = "source"
    /\ \E outcome \in NavOutcomes :
        /\ Navigate("source", source_locale, outcome)
        /\ pc' = "links"
    /\ UNCHANGED <<args, ftl, unit, issues, visited, queue, pages_crawled, route,
                   target_idx, calls, dequeued>>

\* Mutant: a route whose source load failed is put back on the frontier.
SourceNavRequeues ==
    /\ pc = "source"
    /\ \E outcome \in NavOutcomes :
        /\ Navigate("source", source_locale, outcome)
        /\ pc' = IF outcome = "ok" THEN "links" ELSE "loop"
        /\ queue' = IF outcome = "ok" THEN queue ELSE Append(queue, route)
    /\ UNCHANGED <<args, ftl, unit, issues, visited, pages_crawled, route,
                   target_idx, calls, dequeued>>

SourceNav ==
    /\ pc = "source"
    /\ \E outcome \in NavOutcomes :
        /\ Navigate("source", source_locale, outcome)
        /\ pc' = IF outcome = "ok" THEN "links" ELSE "loop"
    /\ UNCHANGED <<args, ftl, unit, issues, visited, queue, pages_crawled, route,
                   target_idx, calls, dequeued>>

\* Mutant: the links are enqueued with their locale prefix.
DiscoveredNoStrip(order, v) ==
    LET Unvisited(r) == r \notin v
    IN  SelectSeq(order, Unvisited)

\* Mutant: a route that is already in the frontier is not appended again.
DiscoveredNotQueued(order, v) ==
    LET normalized == [i \in 1..Len(order) |->
                          _strip_locale_prefix(order[i], source_locale)]
        Unseen(r) == r \notin v /\ \A k \in DOMAIN queue : queue[k] # r
    IN  SelectSeq(normalized, Unseen)

\* The routes the loop over raw_links appends, for one iteration order.
Discovered(order, v) ==
    LET normalized == [i \in 1..Len(order) |->
                          _strip_locale_prefix(order[i], source_locale)]
        Unvisited(r) == r \notin v
    IN  SelectSeq(normalized, Unvisited)

\* Mutant: the links are those of the page of the first target locale.
DiscoverLinksOfTargetPage ==
    /\ pc = "links"
    /\ \E raw_links \in {_extract_same_domain_links(
                             SiteLinks(site, target_locales[1], page.route),
                             base_url)} :
           \E order \in Orderings(raw_links) :
               queue' = queue \o Discovered(order, visited)
    /\ target_idx' = 1
    /\ pc' = AfterTarget(0)
    /\ UNCHANGED <<args, ftl, unit, issues, visited, pages_crawled, route, page, navLog,
                   calls, dequeued>>

DiscoverLinks ==
    /\ pc = "links"
    /\ \E raw_links \in {_extract_same_domain_links(
                             SiteLinks(site, page.locale, page.route), base_url)} :
           \E order \in Orderings(raw_links) :
               queue' = queue \o Discovered(order, visited)
    /\ target_idx' = 1
    /\ pc' = AfterTarget(0)
    /\ UNCHANGED <<args, ftl, unit, issues, visited, pages_crawled, route, page, navLog,
                   calls, dequeued>>

\* Mutant: a failed target leg ends the loop over the target locales.
TargetNavBreaks ==
    /\ pc = "target"
    /\ \E outcome \in NavOutcomes :
        /\ Navigate("target", target_locales[target_idx], outcome)
        /\ IF outcome = "ok"
           THEN pc' = "analyze" /\ UNCHANGED target_idx
           ELSE pc' = "loop" /\ target_idx' = target_idx + 1
    /\ UNCHANGED <<args, ftl, unit, issues, visited, queue, pages_crawled, route, calls,
                   dequeued>>

\* Mutant: the  except  branch of the target try falls through to the analyzer.
TargetNavFallsThrough ==
    /\ pc = "target"
    /\ \E outcome \in NavOutcomes :
        /\ Navigate("target", target_locales[target_idx], outcome)
        /\ pc' = "analyze"
        /\ UNCHANGED target_idx
    /\ UNCHANGED <<args, ftl, unit, issues, visited, queue, pages_crawled, route, calls,
                   dequeued>>

TargetNav ==
    /\ pc = "target"
    /\ \E outcome \in NavOutcomes :
        /\ Navigate("target", target_locales[target_idx], outcome)
        /\ IF outcome = "ok"
           THEN pc' = "analyze" /\ UNCHANGED target_idx
           ELSE pc' = AfterTarget(target_idx) /\ target_idx' = target_idx + 1
    /\ UNCHANGED <<args, ftl, unit, issues, visited, queue, pages_crawled, route, calls,
                   dequeued>>

\* analyze_localization raises: no credential, or the remote call errors.
Raised == "<raised>"

\* The capture that wrote file name of screenshot_dir: the position in navLog
\* of the last successful page.screenshot(path=name), 0 if there is none.
WrittenBy(name) ==
    LET writers == { i \in DOMAIN navLog : navLog[i].ok /\ navLog[i].file = name }
    IN  IF writers = {} THEN 0
        ELSE CHOOSE i \in writers : \A j \in writers : j <= i

\* analyze_localization(source_screenshot, target_screenshot): the two files
\* it is handed, the captures that wrote them, and what it does.
AnalyzerCall(result) ==
    LET source_screenshot == ScreenshotName(route, source_locale)
        target_screenshot == ScreenshotName(route, target_locales[target_idx])
    IN  [route |-> route,
         target_locale |-> target_locales[target_idx],
         source_screenshot |-> source_screenshot,
         target_screenshot |-> target_screenshot,
         source_capture |-> WrittenBy(source_screenshot),
         target_capture |-> WrittenBy(target_screenshot),
         result |-> result]

\* Mutant: an error of the analyzer is caught and the leg is skipped.
AnalyzeContained ==
    /\ pc = "analyze"
    /\ \E result \in (IF api_key THEN Responses \cup {Raised} ELSE {Raised}) :
        /\ calls' = Append(calls, AnalyzerCall(result))
        /\ issues' =
               IF result # Raised /\ DriftVerdict[result]
               THEN Append(issues,
                           [route |-> route,
                            target_locale |-> target_locales[target_idx],
                            analysis |-> result])
               ELSE issues
        /\ pc' = AfterTarget(target_idx)
        /\ target_idx' = target_idx + 1
    /\ UNCHANGED <<args, ftl, unit, visited, queue, pages_crawled, route, page, navLog,
                   dequeued>>

\* Mutant: a new issue is put in front of the list.
AnalyzePrepends ==
    /\ pc = "analyze"
    /\ \E result \in (IF api_key THEN Responses \cup {Raised} ELSE {Raised}) :
        /\ calls' = Append(calls, AnalyzerCall(result))
        /\ IF result = Raised
           THEN /\ pc' = "aborted"
                /\ UNCHANGED <<issues, target_idx>>
           ELSE /\ issues' =
                      IF DriftVerdict[result]
                      THEN <<[route |-> route,
                              target_locale |-> target_locales[target_idx],
                              analysis |-> result]>> \o issues
                      ELSE issues
                /\ pc' = AfterTarget(target_idx)
                /\ target_idx' = target_idx + 1
    /\ UNCHANGED <<args, ftl, unit, visited, queue, pages_crawled, route, page, navLog,
                   dequeued>>

Analyze ==
    /\ pc = "analyze"
    /\ \E result \in (IF api_key THEN Responses \cup {Raised} ELSE {Raised}) :
        /\ calls' = Append(calls, AnalyzerCall(result))
        /\ IF result = Raised
           THEN /\ pc' = "aborted"
                /\ UNCHANGED <<issues, target_idx>>
           ELSE /\ issues' =
                      IF DriftVerdict[result]
                      THEN Append(issues,
                                  [route |-> route,
                                   target_locale |-> target_locales[target_idx],
                                   analysis |-> result])
                      ELSE issues
                /\ pc' = AfterTarget(target_idx)
                /\ target_idx' = target_idx + 1
    /\ UNCHANGED <<args, ftl, unit, visited, queue, pages_crawled, route, page, navLog,
                   dequeued>>

Next ==
    \/ Dequeue
    \/ Return
    \/ SourceNav
    \/ DiscoverLinks
    \/ TargetNav
    \/ Analyze

Spec == Init /\ [][Next]_vars

\* The loop is sequential code: whenever a step is possible, one is taken.
FairSpec == Spec /\ WF_vars(Next)

\* Runs on the six-route site, with a page budget that covers all of it.
InitDeep ==
    /\ command = "crawl"
    /\ FtlIdle
    /\ UnitIdle
    /\ base_url = "https://example.com"
    /\ source_locale = "en"
    /\ target_locales = <<"fr">>
    /\ max_pages \in {MaxPagesBound, DeepPages}
    /\ site \in {"deep", "dup"}
    /\ api_key = TRUE
    /\ InitLocals

SpecDeep == InitDeep /\ [][Next]_vars

\* Runs whose target locales may include the source locale, on sites with
\* routes whose screenshots get the same file names.
OverlapConfigs == TargetConfigs \cup {<<"en", "fr">>, <<"fr", "en">>}

InitOverlap ==
    /\ command = "crawl"
    /\ FtlIdle
    /\ UnitIdle
    /\ base_url = "https://example.com"
    /\ source_locale = "en"
    /\ target_locales \in OverlapConfigs
    /\ max_pages \in 0..(MaxPagesBound + 1 - Len(target_locales))
    /\ site \in {"two", "names"}
    /\ api_key = TRUE
    /\ InitLocals

SpecOverlap == InitOverlap /\ [][Next]_vars

\* Runs on the site whose anchors carry paths with empty, repeated and trailing
\* slashes, and paths of slashes only.
InitSlashes ==
    /\ command = "crawl"
    /\ FtlIdle
    /\ UnitIdle
    /\ base_url \in BaseUrls
    /\ source_locale = "en"
    /\ target_locales \in TargetConfigs
    /\ max_pages \in 0..(MaxPagesBound + 1 - Len(target_locales))
    /\ site = "slashes"
    /\ api_key \in BOOLEAN
    /\ InitLocals

SpecSlashes == InitSlashes /\ [][Next]_vars

(***************************************************************************)
(* Python helpers of the FTL side: str.split, str.join, sorted.            *)
(***************************************************************************)
RECURSIVE Split(_, _)
Split(s, sep) ==
    LET k == Find(s, sep, 1)
    IN  IF k = 0 THEN <<s>>
        ELSE <<SubSeq(s, 1, k - 1)>> \o Split(SubSeq(s, k + Len(sep), Len(s)), sep)

RECURSIVE JoinStr(_, _)
JoinStr(sep, parts) ==
    IF parts = <<>> THEN ""
    ELSE IF Len(parts) = 1 THEN parts[1]
    ELSE parts[1] \o sep \o JoinStr(sep, Tail(parts))

\* The characters of the file names of the model, in code point order.
CodePointOrder ==
    "-./0123456789ABCDEFGHIJKLMNOPQRSTUVWXYZ_abcdefghijklmnopqrstuvwxyz"

Rank(c) == Find(CodePointOrder, c, 1)

\* Python's  a < b  on str, from position i on.
RECURSIVE StrLessFrom(_, _, _)
StrLessFrom(a, b, i) ==
    IF i > Len(a) THEN i <= Len(b)
    ELSE IF i > Len(b) THEN FALSE
    ELSE IF CharAt(a, i) = CharAt(b, i) THEN StrLessFrom(a, b, i + 1)
    ELSE Rank(CharAt(a, i)) < Rank(CharAt(b, i))

StrLess(a, b) == StrLessFrom(a, b, 1)

\* sorted(S) for a set of str
RECURSIVE Sorted(_)
Sorted(S) ==
    IF S = {} THEN <<>>
    ELSE LET m == CHOOSE x \in S : \A y \in S \ {x} : StrLess(x, y)
         IN  <<m>> \o Sorted(S \ {m})

(***************************************************************************)
(* The file tree.  A tree is a set of entries [path, dir]: path is the     *)
(* tuple of names from the top, dir tells a directory from a file.         *)
(***************************************************************************)
\* os.path.join(p, name)
PathJoin(p, name) == Append(p, name)

\* os.path.isdir(p)
IsDir(tree, p) == \E e \in tree : e.path = p /\ e.dir

\* os.listdir(p)
ListDir(tree, p) ==
    { e.path[Len(e.path)] :
        e \in { x \in tree : /\ Len(x.path) = Len(p) + 1
                             /\ SubSeq(x.path, 1, Len(p)) = p } }

\* Mutant: the extension is compared as it is written.
PngsCaseSensitive(tree, d) == { f \in ListDir(tree, d) : EndsWith(f, ".png") }

\* { f for f in os.listdir(d) if f.lower().endswith(".png") }
Pngs(tree, d) == { f \in ListDir(tree, d) : EndsWith(Lower(f), ".png") }

\* dict.get(key)
Get(dict, key) == IF key \in DOMAIN dict THEN dict[key] ELSE None

(***************************************************************************)
(* FTL helpers.                                                            *)
(***************************************************************************)
\* Mutant: a name of three segments is taken for a device directory.
ParseDeviceKeyFromThree(dirname) ==
    LET parts == Split(dirname, "-")
    IN  IF Len(parts) < 3 THEN None
        ELSE <<parts[1] \o "-" \o parts[2] \o "-"
                   \o JoinStr("-", SubSeq(parts, 4, Len(parts))),
               parts[3]>>

\* <<device_key, locale>>, or None.
_parse_device_key(dirname) ==
    LET parts == Split(dirname, "-")
    IN  IF Len(parts) < 4 THEN None
        ELSE LET model == parts[1]
                 version == parts[2]
                 locale == parts[3]
                 orientation == JoinStr("-", SubSeq(parts, 4, Len(parts)))
             IN  <<model \o "-" \o version \o "-" \o orientation, locale>>

\* Mutant: a directory already recorded for the device key and the locale is
\* kept.
SetDefaultPutKeepsFirst(g, device_key, locale, path) ==
    LET old == Get(g.dirs, device_key)
    IN  [order |-> IF device_key \in DOMAIN g.dirs THEN g.order
                   ELSE Append(g.order, device_key),
         dirs |-> [k \in DOMAIN g.dirs \cup {device_key} |->
                      IF k = device_key
                      THEN [l \in DOMAIN old \cup {locale} |->
                               IF l \in DOMAIN old THEN old[l] ELSE path]
                      ELSE g.dirs[k]]]

\* groups.setdefault(device_key, {})[locale] = path ; order is the order in
\* which the dict got its keys, the order groups.items() follows.
SetDefaultPut(g, device_key, locale, path) ==
    LET old == Get(g.dirs, device_key)
    IN  [order |-> IF device_key \in DOMAIN g.dirs THEN g.order
                   ELSE Append(g.order, device_key),
         dirs |-> [k \in DOMAIN g.dirs \cup {device_key} |->
                      IF k = device_key
                      THEN [l \in DOMAIN old \cup {locale} |->
                               IF l = locale THEN path ELSE old[l]]
                      ELSE g.dirs[k]]]

\* The first loop of _group_device_dirs, from entry number i of entries on.
RECURSIVE GroupFlat(_, _, _, _, _)
GroupFlat(tree, root, entries, i, g) ==
    IF i > Len(entries) THEN g
    ELSE LET full_path == PathJoin(root, entries[i])
             parsed == _parse_device_key(entries[i])
         IN  GroupFlat(tree, root, entries, i + 1,
                       IF IsDir(tree, full_path) /\ parsed # None
                       THEN SetDefaultPut(g, parsed[1], parsed[2], full_path)
                       ELSE g)

\* The directories among the sorted entries of directory p.
SubDirs(tree, p) ==
    LET names == Sorted(ListDir(tree, p))
        paths == [i \in 1..Len(names) |-> PathJoin(p, names[i])]
        Dir(q) == IsDir(tree, q)
    IN  SelectSeq(paths, Dir)

RECURSIVE Flatten(_)
Flatten(seqs) == IF seqs = <<>> THEN <<>> ELSE Head(seqs) \o Flatten(Tail(seqs))

\* The directories three levels below root, in the order the nested loops
\* of _group_device_dirs reach them.
NestedDeviceDirs(tree, root) ==
    LET locale_dirs == SubDirs(tree, root)
        UnderLocale(locale_dir) ==
            LET results_dirs == SubDirs(tree, locale_dir)
            IN  Flatten([j \in 1..Len(results_dirs) |->
                            SubDirs(tree, results_dirs[j])])
    IN  Flatten([i \in 1..Len(locale_dirs) |-> UnderLocale(locale_dirs[i])])

\* The body of the innermost nested loop, from directory number i on.
RECURSIVE GroupNested(_, _, _, _)
GroupNested(tree, device_dirs, i, g) ==
    IF i > Len(device_dirs) THEN g
    ELSE LET device_dir == device_dirs[i]
             parsed == _parse_device_key(device_dir[Len(device_dir)])
             artifacts_dir == PathJoin(device_dir, "artifacts")
         IN  GroupNested(tree, device_dirs, i + 1,
                         IF parsed # None
                         THEN SetDefaultPut(g, parsed[1], parsed[2],
                                            IF IsDir(tree, artifacts_dir)
                                            THEN artifacts_dir
                                            ELSE device_dir)
                         ELSE g)

\* Mutant: the nested loops run whatever the first loop found.
GroupDeviceDirsBothTopologies(tree, root) ==
    GroupNested(tree, NestedDeviceDirs(tree, root), 1,
                GroupFlat(tree, root, Sorted(ListDir(tree, root)), 1,
                          EmptyGroups))

_group_device_dirs(tree, root) ==
    LET flat == GroupFlat(tree, root, Sorted(ListDir(tree, root)), 1,
                          EmptyGroups)
    IN  IF flat.order = <<>>
        THEN GroupNested(tree, NestedDeviceDirs(tree, root), 1, flat)
        ELSE flat

(***************************************************************************)
(* Environment: the screenshot trees ftl_analyze is run on.                *)
(***************************************************************************)
Root == <<"shots">>

D(p) == [path |-> Root \o p, dir |-> TRUE]

F(p) == [path |-> Root \o p, dir |-> FALSE]

\* A directory d with the files of names.
DirOf(d, names) == {D(d)} \cup { F(Append(d, n)) : n \in names }

\* Device directories directly under the root; stray entries among them.
FlatTree ==
    {D(<<>>)}
    \cup DirOf(<<"starlte-29-en-portrait">>,
               {"a.png", "b.png", "d.PNG", "notes.txt"})
    \cup DirOf(<<"starlte-29-fr-portrait">>, {"b.png", "c.png", "d.PNG"})
    \cup DirOf(<<"starlte-29-es-portrait">>, {"B.png", "a.png"})
    \cup DirOf(<<"pixel-30-en-landscape-left">>, {"Z.png"})
    \cup DirOf(<<"pixel-30-fr-landscape-left">>, {"Z.png", "z.png"})
    \cup DirOf(<<"redfin-30-fr-portrait">>, {"a.png"})
    \cup DirOf(<<"tmp">>, {"a.png"})
    \cup {F(<<"flame-30-en-portrait">>)}

\* root/locale/run/device, with and without an artifacts directory, the same
\* device directory under two runs.
NestedTree ==
    {D(<<>>), D(<<"en">>), D(<<"fr">>), F(<<"README">>),
     D(<<"en", "ftl-results-1">>), D(<<"fr", "ftl-results-1">>),
     D(<<"fr", "ftl-results-2">>), F(<<"en", "log.txt">>),
     D(<<"en", "ftl-results-1", "starlte-29-en-portrait">>),
     D(<<"en", "ftl-results-1", "tmp">>),
     D(<<"fr", "ftl-results-1", "starlte-29-fr-portrait">>),
     D(<<"fr", "ftl-results-2", "starlte-29-fr-portrait">>)}
    \cup DirOf(<<"en", "ftl-results-1", "starlte-29-en-portrait", "artifacts">>,
               {"a.png", "b.png"})
    \cup { F(<<"en", "ftl-results-1", "starlte-29-en-portrait", "c.png">>),
           F(<<"fr", "ftl-results-1", "starlte-29-fr-portrait", "a.png">>),
           F(<<"fr", "ftl-results-2", "starlte-29-fr-portrait", "c.png">>) }
    \cup DirOf(<<"fr", "ftl-results-2", "starlte-29-fr-portrait", "artifacts">>,
               {"b.png"})

\* A device directory under the root and device directories three levels down.
MixedTree ==
    {D(<<>>), D(<<"fr">>), D(<<"fr", "ftl-results-1">>)}
    \cup DirOf(<<"starlte-29-en-portrait">>, {"a.png"})
    \cup DirOf(<<"fr", "ftl-results-1", "starlte-29-fr-portrait">>, {"a.png"})

\* A root with nothing that parses.
StrayTree == {D(<<>>), D(<<"tmp">>), F(<<"a.png">>)}

\* A device with no source-locale directory, and a device with a source-locale
\* directory that lacks the directory of the first target locale.
GapsTree ==
    {D(<<>>)}
    \cup DirOf(<<"redfin-30-fr-portrait">>, {"a.png"})
    \cup DirOf(<<"redfin-30-es-portrait">>, {"a.png"})
    \cup DirOf(<<"walleye-28-en-portrait">>, {"a.png", "b.png"})
    \cup DirOf(<<"walleye-28-es-portrait">>, {"a.png"})

\* root/locale/run/device with the device directory of one locale under two
\* locale directories, the later locale directory holding the earlier run.
CrossLocaleTree ==
    {D(<<>>), D(<<"en">>), D(<<"fr">>),
     D(<<"en", "ftl-results-1">>), D(<<"fr", "ftl-results-0">>)}
    \cup DirOf(<<"en", "ftl-results-1", "starlte-29-en-portrait">>, {"a.png"})
    \cup DirOf(<<"en", "ftl-results-1", "starlte-29-fr-portrait">>,
               {"a.png", "b.png"})
    \cup DirOf(<<"fr", "ftl-results-0", "starlte-29-fr-portrait">>, {"a.png"})

Trees == {FlatTree, NestedTree, MixedTree, StrayTree, GapsTree, CrossLocaleTree}

\* The arguments screenshots_dir can take: the root, a path that does not
\* exist, a path that is a file.
ScreenshotDirs == {Root, <<"nowhere">>, Root \o <<"a.png">>}

InitFtl ==
    /\ command = "ftl-analyze"
    /\ UnitIdle
    /\ screenshots_dir \in ScreenshotDirs
    /\ fs \in Trees
    /\ source_locale = "en"
    /\ target_locales \in TargetConfigs
    /\ api_key \in BOOLEAN
    /\ groups = EmptyGroups
    /\ device_idx = 0
    /\ file_idx = 0
    /\ source_pngs = {}
    /\ matched = <<>>
    /\ skipLog = <<>>
    /\ issues = <<>>
    /\ calls = <<>>
    /\ target_idx = 0
    /\ pc = "ftl_start"
    \* crawl_and_analyze is not running
    /\ base_url = ""
    /\ max_pages = 0
    /\ site = ""
    /\ visited = {}
    /\ queue = <<>>
    /\ pages_crawled = 0
    /\ route = ""
    /\ page = BlankPage
    /\ navLog = <<>>
    /\ dequeued = 0

(***************************************************************************)
(* ftl_analyze, one action per loop level.                                 *)
(***************************************************************************)
\* The device key and the directories of the current item of groups.items().
DeviceKey == groups.order[device_idx]

LocaleDirs == groups.dirs[DeviceKey]

\* Mutant: screenshots_dir is grouped without the check that it is a directory.
FtlStartSkipsCheck ==
    /\ pc = "ftl_start"
    /\ groups' = _group_device_dirs(fs, screenshots_dir)
    /\ device_idx' = 1
    /\ pc' = "ftl_device"
    /\ UNCHANGED <<args, crawl, unit, issues, calls, target_idx, screenshots_dir, fs,
                   file_idx, source_pngs, matched, skipLog>>

\* The check of screenshots_dir, then _group_device_dirs.
FtlStart ==
    /\ pc = "ftl_start"
    /\ IF ~IsDir(fs, screenshots_dir)
       THEN /\ pc' = "not_found"
            /\ UNCHANGED <<groups, device_idx>>
       ELSE /\ groups' = _group_device_dirs(fs, screenshots_dir)
            /\ device_idx' = 1
            /\ pc' = "ftl_device"
    /\ UNCHANGED <<args, crawl, unit, issues, calls, target_idx, screenshots_dir, fs,
                   file_idx, source_pngs, matched, skipLog>>

\* for device_key, locale_dirs in groups.items(), up to the loop over the
\* target locales.
FtlDevice ==
    /\ pc = "ftl_device"
    /\ IF device_idx > Len(groups.order)
       THEN /\ pc' = "done"
            /\ UNCHANGED <<device_idx, source_pngs, target_idx>>
       ELSE \E source_dir \in {Get(LocaleDirs, source_locale)} :
               IF source_dir = None
               THEN /\ device_idx' = device_idx + 1
                    /\ pc' = "ftl_device"
                    /\ UNCHANGED <<source_pngs, target_idx>>
               ELSE /\ source_pngs' = Pngs(fs, source_dir)
                    /\ target_idx' = 1
                    /\ pc' = "ftl_target"
                    /\ UNCHANGED device_idx
    /\ UNCHANGED <<args, crawl, unit, issues, calls, screenshots_dir, fs, groups,
                   file_idx, matched, skipLog>>

\* Mutant: a missing target directory ends the loop over the target locales.
FtlTargetBreaks ==
    /\ pc = "ftl_target"
    /\ IF target_idx > Len(target_locales)
       THEN /\ device_idx' = device_idx + 1
            /\ pc' = "ftl_device"
            /\ UNCHANGED <<target_idx, matched, file_idx, skipLog>>
       ELSE \E target_dir \in {Get(LocaleDirs, target_locales[target_idx])} :
               IF target_dir = None
               THEN /\ device_idx' = device_idx + 1
                    /\ pc' = "ftl_device"
                    /\ UNCHANGED <<target_idx, matched, file_idx, skipLog>>
               ELSE \E target_pngs \in {Pngs(fs, target_dir)} :
                       LET both == source_pngs \cap target_pngs
                           skipped == (source_pngs \cup target_pngs) \ both
                       IN  /\ matched' = Sorted(both)
                           /\ skipLog' =
                                  IF skipped # {}
                                  THEN Append(skipLog,
                                         [device |-> DeviceKey,
                                          target_locale |->
                                              target_locales[target_idx],
                                          skipped |-> skipped,
                                          count |-> Cardinality(skipped)])
                                  ELSE skipLog
                           /\ file_idx' = 1
                           /\ pc' = "ftl_file"
                           /\ UNCHANGED <<device_idx, target_idx>>
    /\ UNCHANGED <<args, crawl, unit, issues, calls, screenshots_dir, fs, groups,
                   source_pngs>>

\* for target_locale in target_locales, up to the loop over the matched files.
FtlTarget ==
    /\ pc = "ftl_target"
    /\ IF target_idx > Len(target_locales)
       THEN /\ device_idx' = device_idx + 1
            /\ pc' = "ftl_device"
            /\ UNCHANGED <<target_idx, matched, file_idx, skipLog>>
       ELSE \E target_dir \in {Get(LocaleDirs, target_locales[target_idx])} :
               IF target_dir = None
               THEN /\ target_idx' = target_idx + 1
                    /\ pc' = "ftl_target"
                    /\ UNCHANGED <<device_idx, matched, file_idx, skipLog>>
               ELSE \E target_pngs \in {Pngs(fs, target_dir)} :
                       LET both == source_pngs \cap target_pngs
                           skipped == (source_pngs \cup target_pngs) \ both
                       IN  /\ matched' = Sorted(both)
                           /\ skipLog' =
                                  IF skipped # {}
                                  THEN Append(skipLog,
                                         [device |-> DeviceKey,
                                          target_locale |->
                                              target_locales[target_idx],
                                          skipped |-> skipped,
                                          count |-> Cardinality(skipped)])
                                  ELSE skipLog
                           /\ file_idx' = 1
                           /\ pc' = "ftl_file"
                           /\ UNCHANGED <<device_idx, target_idx>>
    /\ UNCHANGED <<args, crawl, unit, issues, calls, screenshots_dir, fs, groups,
                   source_pngs>>

\* for filename in sorted(matched): the analyzer call and the verdict test.
FtlFile ==
    /\ pc = "ftl_file"
    /\ IF file_idx > Len(matched)
       THEN /\ target_idx' = target_idx + 1
            /\ pc' = "ftl_target"
            /\ UNCHANGED <<file_idx, issues, calls>>
       ELSE \E result \in (IF api_key THEN Responses \cup {Raised}
                           ELSE {Raised}) :
               LET filename == matched[file_idx]
                   target_locale == target_locales[target_idx]
               IN  /\ calls' = Append(calls,
                          [device |-> DeviceKey,
                           target_locale |-> target_locale,
                           filename |-> filename,
                           source_path |->
                               PathJoin(LocaleDirs[source_locale], filename),
                           target_path |->
                               PathJoin(LocaleDirs[target_locale], filename),
                           result |-> result])
                   /\ IF result = Raised
                      THEN /\ pc' = "aborted"
                           /\ UNCHANGED <<issues, file_idx>>
                      ELSE /\ issues' =
                                 IF DriftVerdict[result]
                                 THEN Append(issues,
                                             [device |-> DeviceKey,
                                              target_locale |-> target_locale,
                                              filename |-> filename,
                                              analysis |-> result])
                                 ELSE issues
                           /\ file_idx' = file_idx + 1
                           /\ pc' = "ftl_file"
                   /\ UNCHANGED target_idx
    /\ UNCHANGED <<args, crawl, unit, screenshots_dir, fs, groups, device_idx,
                   source_pngs, matched, skipLog>>

NextFtl ==
    \/ FtlStart
    \/ FtlDevice
    \/ FtlTarget
    \/ FtlFile

SpecFtl == InitFtl /\ [][NextFtl]_vars

(***************************************************************************)
(* Either command.                                                         *)
(***************************************************************************)
InitAny == Init \/ InitFtl

NextAny == Next \/ NextFtl

SpecAny == InitAny /\ [][NextAny]_vars

(***************************************************************************)
(* Report: _print_report and _print_ftl_report.  What a report prints is   *)
(* the sequence of its print calls, each the string it is given.           *)
(***************************************************************************)
\* The characters str.strip() removes, of those the analyzer's answers hold.
Whitespace == {" ", "\n"}

RECURSIVE LStripWs(_)
LStripWs(s) ==
    IF s # "" /\ CharAt(s, 1) \in Whitespace
    THEN LStripWs(SubSeq(s, 2, Len(s)))
    ELSE s

RECURSIVE RStripWs(_)
RStripWs(s) ==
    IF s # "" /\ CharAt(s, Len(s)) \in Whitespace
    THEN RStripWs(SubSeq(s, 1, Len(s) - 1))
    ELSE s

\* str.strip()
Strip(s) == LStripWs(RStripWs(s))

\* str.splitlines(), for lines that end in "\n"
SplitLines(s) ==
    LET parts == Split(s, "\n")
    IN  IF parts[Len(parts)] = "" THEN SubSeq(parts, 1, Len(parts) - 1)
        ELSE parts

\* "=" * 60
Rule == "============================================================"

\* Mutant: an issue whose analysis text the group already holds is left out.
SetDefaultAppendUnique(by, key, issue) ==
    LET old == IF key \in DOMAIN by.lists THEN by.lists[key] ELSE <<>>
        known == \E n \in DOMAIN old : old[n].analysis = issue.analysis
    IN  [order |-> IF key \in DOMAIN by.lists THEN by.order
                   ELSE Append(by.order, key),
         lists |-> [k \in DOMAIN by.lists \cup {key} |->
                       IF k = key
                       THEN (IF known THEN old ELSE Append(old, issue))
                       ELSE by.lists[k]]]

\* by.setdefault(key, []).append(issue) ; order is the order in which the
\* dict got its keys, the order by.items() follows.
SetDefaultAppend(by, key, issue) ==
    LET old == IF key \in DOMAIN by.lists THEN by.lists[key] ELSE <<>>
    IN  [order |-> IF key \in DOMAIN by.lists THEN by.order
                   ELSE Append(by.order, key),
         lists |-> [k \in DOMAIN by.lists \cup {key} |->
                       IF k = key THEN Append(old, issue) ELSE by.lists[k]]]

\* for issue in issues: by.setdefault(issue[field], []).append(issue), from
\* issue number i on.
RECURSIVE GroupBy(_, _, _, _)
GroupBy(found, field, i, by) ==
    IF i > Len(found) THEN by
    ELSE GroupBy(found, field, i + 1,
                 SetDefaultAppend(by, found[i][field], found[i]))

\* for line in issue["analysis"].strip().splitlines(): print(f"    {line}")
AnalysisLines(issue) ==
    LET lines == SplitLines(Strip(issue.analysis))
    IN  [j \in 1..Len(lines) |-> "    " \o lines[j]]

_print_report(found, pages) ==
    LET header == <<"\n" \o Rule, "LOCALIZATION DRIFT REPORT", Rule,
                    "Pages crawled: " \o ToString(pages),
                    "Issues found: " \o ToString(Len(found))>>
        by_route == GroupBy(found, "route", 1,
                            [order |-> <<>>, lists |-> EmptyDict])
        IssueLines(issue) ==
            <<"\n  Locale: " \o issue.target_locale>> \o AnalysisLines(issue)
        RouteLines(r) ==
            LET route_issues == by_route.lists[r]
            IN  <<"\n--- Route: " \o r \o " ---">>
                    \o Flatten([n \in 1..Len(route_issues) |->
                                   IssueLines(route_issues[n])])
    IN  IF found = <<>>
        THEN header
                 \o <<"\nNo localization issues detected across any pages.">>
        ELSE header
                 \o Flatten([g \in 1..Len(by_route.order) |->
                                RouteLines(by_route.order[g])])
                 \o <<"\n" \o Rule>>

_print_ftl_report(found) ==
    LET header == <<"\n" \o Rule, "FTL LOCALIZATION DRIFT REPORT", Rule,
                    "Issues found: " \o ToString(Len(found))>>
        by_device == GroupBy(found, "device", 1,
                             [order |-> <<>>, lists |-> EmptyDict])
        IssueLines(issue) ==
            <<"\n  Locale: " \o issue.target_locale,
              "  File: " \o issue.filename>> \o AnalysisLines(issue)
        DeviceLines(device) ==
            LET device_issues == by_device.lists[device]
            IN  <<"\n--- Device: " \o device \o " ---">>
                    \o Flatten([n \in 1..Len(device_issues) |->
                                   IssueLines(device_issues[n])])
    IN  IF found = <<>>
        THEN header
                 \o <<"\nNo localization issues detected across any devices.">>
        ELSE header
                 \o Flatten([g \in 1..Len(by_device.order) |->
                                DeviceLines(by_device.order[g])])
                 \o <<"\n" \o Rule>>

(***************************************************************************)
(* Direct calls of the helper functions, as the tests make them: one call  *)
(* per run, its arguments drawn from the inputs below.                     *)
(***************************************************************************)
\* Longest directory name a call of _parse_device_key is given, in segments.
MaxSegments == 5

SegmentChoices == {"starlte", "29", "en", "portrait", ""}

\* The directory names of 1 to n segments.
RECURSIVE DirNames(_)
DirNames(n) ==
    IF n <= 1 THEN SegmentChoices
    ELSE LET shorter == DirNames(n - 1)
         IN  shorter \cup { a \o "-" \o b : a \in shorter, b \in SegmentChoices }

\* Directories whose names have fewer than 4 segments: under the root, and
\* three levels below it.
RootStrays == DirOf(<<"starlte-29-en">>, {"a.png"}) \cup {D(<<"a-b">>)}

DeepStrays ==
    {D(<<"en">>), D(<<"en", "ftl-results-1">>)}
    \cup DirOf(<<"en", "ftl-results-1", "starlte-29-en">>, {"a.png"})

StraySets == {{}, RootStrays, DeepStrays}

ParseInputs ==
    { [fn |-> "_parse_device_key", dirname |-> d] : d \in DirNames(MaxSegments) }

GroupInputs ==
    { [fn |-> "_group_device_dirs", tree |-> t \cup s, root |-> Root, base |-> t] :
        t \in Trees, s \in StraySets }

\* Longest path a call of _strip_locale_prefix is given, in segments.
MaxPathSegments == 3

PathSegmentChoices == {"en", "fr", "english", "about", ""}

\* The paths of 0 to n segments, each segment after a slash.
RECURSIVE Paths(_)
Paths(n) ==
    IF n <= 0 THEN {""}
    ELSE LET shorter == Paths(n - 1)
         IN  shorter \cup { q \o "/" \o x : q \in shorter, x \in PathSegmentChoices }

\* The same paths without their leading slash.
RelativePaths(n) == { SubSeq(q, 2, Len(q)) : q \in Paths(n) \ {""} }

Locales == {"en", "fr"}

StripInputs ==
    { [fn |-> "_strip_locale_prefix", path |-> q, locale |-> l] :
        q \in Paths(MaxPathSegments) \cup RelativePaths(MaxPathSegments),
        l \in Locales }

\* Base URLs: origins, with and without trailing slashes, and sites served
\* under a path.
BuildBases ==
    {"https://example.com", "https://example.com/", "https://example.com//",
     "http://localhost:3000", "https://example.com/app",
     "https://example.com/app/"}

BuildInputs ==
    { [fn |-> "_build_locale_url", base |-> b, locale |-> l, route |-> q] :
        b \in BuildBases, l \in Locales, q \in Paths(MaxPathSegments) \ {""} }

\* Most anchors of a page a call of _extract_same_domain_links is given.
MaxHrefs == 2

\* The hrefs the anchors of a page can carry.
HrefChoices ==
    {"https://example.com/en/about", "https://example.com/en/about/",
     "https://example.com/en/about?x=1#top", "https://other.com/x",
     "https://example.com", "https://example.com/", "https://example.com//",
     "http://example.com/en", "/en/contact//", "about", "",
     "https://example.com/en/en/about"}

ExtractInputs ==
    { [fn |-> "_extract_same_domain_links", hrefs |-> h, base |-> b] :
        h \in { x \in SUBSET HrefChoices : Cardinality(x) <= MaxHrefs },
        b \in BaseUrls }

DiscoverInputs ==
    { [fn |-> "discover_links", hrefs |-> h, base |-> b, locale |-> l] :
        h \in { x \in SUBSET HrefChoices : Cardinality(x) <= MaxHrefs },
        b \in BaseUrls, l \in Locales }

\* Longest issue list a report is printed for.
MaxIssues == 3

\* What the analyzer answered for the issues of a report: one line, and two
\* lines with white space around them.
ReportTexts == {"- Header: text truncated",
                " - Title: clipped\n- Footer: wraps\n"}

CrawlIssues ==
    [route : {"/", "/about"}, target_locale : {"fr", "es"},
     analysis : ReportTexts]

FtlIssues ==
    [device : {"starlte-29-portrait", "pixel-30-landscape-left"},
     target_locale : {"fr", "es"}, filename : {"a.png"},
     analysis : ReportTexts]

\* The lists of at most n elements of S.
Lists(S, n) == UNION { [1..k -> S] : k \in 0..n }

ReportInputs ==
    { [fn |-> "_print_report", issues |-> found, pages_crawled |-> 2] :
        found \in Lists(CrawlIssues, MaxIssues) }
    \cup { [fn |-> "_print_ftl_report", issues |-> found] :
             found \in Lists(FtlIssues, MaxIssues) }

CallInputs ==
    ParseInputs \cup GroupInputs \cup StripInputs \cup BuildInputs
        \cup ExtractInputs \cup DiscoverInputs \cup ReportInputs

\* crawl_and_analyze is not running.
CrawlIdle ==
    /\ base_url = ""
    /\ max_pages = 0
    /\ site = ""
    /\ visited = {}
    /\ queue = <<>>
    /\ pages_crawled = 0
    /\ route = ""
    /\ page = BlankPage
    /\ navLog = <<>>
    /\ dequeued = 0

InitCalls ==
    /\ command = "test"
    /\ callee_in \in CallInputs
    /\ callee_out = <<>>
    /\ pc = "call"
    /\ CrawlIdle
    /\ FtlIdle
    /\ source_locale = "en"
    /\ target_locales = <<>>
    /\ api_key = FALSE
    /\ issues = <<>>
    /\ calls = <<>>
    /\ target_idx = 0

\* The call returns value.
Returns(value) ==
    /\ callee_out' = <<value>>
    /\ pc' = "returned"
    /\ UNCHANGED <<args, crawl, ftl, issues, calls, target_idx, callee_in>>

CallParseDeviceKey ==
    /\ pc = "call"
    /\ callee_in.fn = "_parse_device_key"
    /\ Returns(_parse_device_key(callee_in.dirname))

CallGroupDeviceDirs ==
    /\ pc = "call"
    /\ callee_in.fn = "_group_device_dirs"
    /\ Returns(_group_device_dirs(callee_in.tree, callee_in.root))

CallStripLocalePrefix ==
    /\ pc = "call"
    /\ callee_in.fn = "_strip_locale_prefix"
    /\ Returns(_strip_locale_prefix(callee_in.path, callee_in.locale))

CallBuildLocaleUrl ==
    /\ pc = "call"
    /\ callee_in.fn = "_build_locale_url"
    /\ Returns(_build_locale_url(callee_in.base, callee_in.locale,
                                 callee_in.route))

CallExtractSameDomainLinks ==
    /\ pc = "call"
    /\ callee_in.fn = "_extract_same_domain_links"
    /\ Returns(_extract_same_domain_links(callee_in.hrefs, callee_in.base))

\* The link discovery step on its own.
CallDiscoverLinks ==
    /\ pc = "call"
    /\ callee_in.fn = "discover_links"
    /\ Returns(NormalizedLinks(callee_in.hrefs, callee_in.base,
                               callee_in.locale))

CallPrintReport ==
    /\ pc = "call"
    /\ callee_in.fn = "_print_report"
    /\ Returns(_print_report(callee_in.issues, callee_in.pages_crawled))

CallPrintFtlReport ==
    /\ pc = "call"
    /\ callee_in.fn = "_print_ftl_report"
    /\ Returns(_print_ftl_report(callee_in.issues))

NextCalls ==
    \/ CallParseDeviceKey
    \/ CallGroupDeviceDirs
    \/ CallStripLocalePrefix
    \/ CallBuildLocaleUrl
    \/ CallExtractSameDomainLinks
    \/ CallDiscoverLinks
    \/ CallPrintReport
    \/ CallPrintFtlReport

SpecCalls == InitCalls /\ [][NextCalls]_vars

\* The call of helper fn has returned.
Returned(fn) == pc = "returned" /\ callee_in.fn = fn

Result == callee_out[1]

(***************************************************************************)
(* Reading the histories.                                                  *)
(***************************************************************************)
SourceTries == { i \in DOMAIN navLog : navLog[i].side = "source" }

TargetTries == { i \in DOMAIN navLog : navLog[i].side = "target" }

FailedTries == { i \in DOMAIN navLog : ~navLog[i].ok }

\* Routes whose source-locale page was loaded and captured.
LoadedRoutes == { navLog[i].route : i \in SourceTries \ FailedTries }

\* Routes whose source-locale navigation or capture failed.
FailedRoutes == { navLog[i].route : i \in SourceTries \cap FailedTries }

(***************************************************************************)
(* C1.  No route is processed twice: a route is in the visited set from    *)
(* the moment it is dequeued, before any navigation for it, and the source *)
(* URL of a route is navigated at most once in a run, whatever the links   *)
(* (self-links, mutual links) and whatever navigations fail.               *)
(***************************************************************************)
C1_NoRouteProcessedTwice ==
    /\ \A i, j \in SourceTries :
           (navLog[i].url = navLog[j].url \/ navLog[i].route = navLog[j].route)
               => i = j
    /\ \A i \in DOMAIN navLog : navLog[i].route \in visited
    /\ pc = "source" =>
           /\ route \in visited
           /\ \A i \in DOMAIN navLog : navLog[i].route # route

\* Both pages of the site with a self-link and mutual links were loaded, a
\* later navigation failed, and the run has returned.
C1_Witness ==
    /\ site = "cycle"
    /\ pc = "done"
    /\ LoadedRoutes = {"/", "/a"}
    /\ FailedTries # {}

(***************************************************************************)
(* C2.  The page counter never exceeds max_pages, also on a site where     *)
(* every page reports links never seen before.                             *)
(***************************************************************************)
C2_PageBudget == pages_crawled <= max_pages

\* The budget stopped a run on the ever-growing site with routes still queued.
C2_Witness ==
    /\ site = "grow"
    /\ pc = "done"
    /\ max_pages = MaxPagesBound
    /\ pages_crawled = max_pages
    /\ Len(queue) > max_pages

(***************************************************************************)
(* The link graph of the crawled site, on routes: the locale-stripped      *)
(* same-origin links of the source-locale page of r.                       *)
(***************************************************************************)
RouteLinks(r) ==
    { _strip_locale_prefix(p, source_locale) :
        p \in _extract_same_domain_links(SiteLinks(site, source_locale, r),
                                         base_url) }

\* balls[k] is the set of routes within k - 1 links of "/", following no link
\* of a route in blocked; Balls extends the sequence up to n links.
RECURSIVE Balls(_, _, _)
Balls(balls, blocked, n) ==
    IF Len(balls) > n THEN balls
    ELSE LET B == balls[Len(balls)]
             new == IF Len(balls) = 1 THEN B ELSE B \ balls[Len(balls) - 1]
             next == B \cup UNION { RouteLinks(r) : r \in new \ blocked }
         IN  Balls(Append(balls, next), blocked, n)

\* The routes reachable from those of S, new being the routes of S whose
\* links are still to be followed; the search stops once more than limit
\* routes are found (the site may have no end).
RECURSIVE ReachableFrom(_, _, _, _)
ReachableFrom(S, new, blocked, limit) ==
    LET next == S \cup UNION { RouteLinks(r) : r \in new \ blocked }
    IN  IF next = S \/ Cardinality(S) > limit THEN S
        ELSE ReachableFrom(next, next \ S, blocked, limit)

\* The number of routes reachable from "/", counted up to limit + 1.
Reachable(blocked, limit) ==
    Cardinality(ReachableFrom({"/"}, {"/"}, blocked, limit))

Min(a, b) == IF a <= b THEN a ELSE b

\* Link distance of route r from "/", read from the balls.
Dist(balls, r) ==
    CHOOSE k \in 0..(Len(balls) - 1) :
        r \in balls[k + 1] /\ (k = 0 \/ r \notin balls[k])

\* The routes in the order the loop took them up.
ProcessedOrder ==
    LET IsSource(e) == e.side = "source"
        tries == SelectSeq(navLog, IsSource)
        done == [k \in 1..Len(tries) |-> tries[k].route]
    IN  IF pc = "source" THEN Append(done, route) ELSE done

\* The processed routes come in the order of their link distance from "/",
\* links of the routes in blocked not counted.
BreadthFirst(blocked) ==
    LET balls == Balls(<<{"/"}>>, blocked, pages_crawled)
        d == [i \in DOMAIN ProcessedOrder |-> Dist(balls, ProcessedOrder[i])]
    IN  \A i, j \in DOMAIN d : d[i] < d[j] => i < j

\* The 2-page scenario: "/" links to "/about", nothing fails, no drift.
TwoPageScenario ==
    (/\ site = "two"
     /\ max_pages >= 2
     /\ pc = "done"
     /\ FailedTries = {}
     /\ \A k \in DOMAIN calls : ~ReportsDrift(calls[k].result))
        => (pages_crawled = 2 /\ issues = <<>>)

(***************************************************************************)
(* C3 as stated.  On return pagesCrawled = min(reachableRoutes, maxPages), *)
(* reachableRoutes counting the routes reachable from "/" by the site's    *)
(* locale-stripped same-origin links; the 2-page scenario gives 2 pages    *)
(* and no issue.                                                           *)
(***************************************************************************)
C3_Original ==
    /\ pc = "done" =>
           pages_crawled =
               Min(Reachable({}, max_pages), max_pages)
    /\ TwoPageScenario

(***************************************************************************)
(* C3 amended.  On return pagesCrawled = min(n, maxPages), n counting the  *)
(* routes reachable from "/" by the links of the pages whose source load   *)
(* succeeded (a route whose source load failed contributes no link); the   *)
(* 2-page scenario gives 2 pages and no issue.                             *)
(***************************************************************************)
C3_PagesCrawledIsReachableThroughLoadedPages ==
    /\ pc = "done" =>
           pages_crawled =
               Min(Reachable(FailedRoutes, max_pages), max_pages)
    /\ TwoPageScenario

\* The root page failed to load on the 2-page site: one page crawled, two
\* routes reachable, budget left.
C3_Witness ==
    /\ site = "two"
    /\ pc = "done"
    /\ max_pages >= 2
    /\ FailedRoutes = {"/"}
    /\ pages_crawled = 1

(***************************************************************************)
(* C4.  A failed source navigation or capture of a route gives no target   *)
(* navigation and no analyzer call for that route, extracts and enqueues   *)
(* no link from it (every discovered route is the root or a link of a page *)
(* that did load), and the run goes back to the loop test for the next     *)
(* route of the frontier.                                                  *)
(***************************************************************************)
DiscoveredRoutes == visited \cup { queue[k] : k \in DOMAIN queue }

C4_SourceFailureAbandonsRoute ==
    /\ [](\A r \in FailedRoutes :
              /\ \A i \in TargetTries : navLog[i].route # r
              /\ \A k \in DOMAIN calls : calls[k].route # r)
    /\ [](DiscoveredRoutes \subseteq
              {"/"} \cup UNION { RouteLinks(r) : r \in LoadedRoutes })
    /\ [][(pc = "source" /\ ~navLog'[Len(navLog')].ok)
              => /\ pc' = "loop"
                 /\ queue' = queue
                 /\ visited' = visited
                 /\ pages_crawled' = pages_crawled
                 /\ issues' = issues
                 /\ calls' = calls]_vars

\* The source load of "/a" failed, and the run went on to load "/b".
C4_Witness ==
    /\ site = "dup"
    /\ "/a" \in FailedRoutes
    /\ "/b" \in LoadedRoutes
    /\ "/c" \notin DiscoveredRoutes
    /\ pc = "done"

(***************************************************************************)
(* C5.  A failed navigation or capture for one target locale of a route    *)
(* skips that leg only: no analyzer call and no issue for it; every other  *)
(* configured target locale of the route is still navigated, and analyzed  *)
(* when its own navigation succeeds; the frontier, the visited set and the *)
(* page counter are left as they were.                                     *)
(***************************************************************************)
\* The loop iteration of route r has run to its end.
RouteFinished(r) == r # route \/ pc \in {"loop", "done"}

C5_TargetFailureSkipsOneLeg ==
    /\ [](\A i \in TargetTries \cap FailedTries :
              /\ \A k \in DOMAIN calls :
                     ~(/\ calls[k].route = navLog[i].route
                       /\ calls[k].target_locale = navLog[i].locale)
              /\ \A k \in DOMAIN issues :
                     ~(/\ issues[k].route = navLog[i].route
                       /\ issues[k].target_locale = navLog[i].locale))
    /\ [](\A r \in LoadedRoutes : RouteFinished(r) =>
              \A t \in DOMAIN target_locales :
                  \E i \in TargetTries :
                      /\ navLog[i].route = r
                      /\ navLog[i].locale = target_locales[t]
                      /\ navLog[i].ok =>
                             \E k \in DOMAIN calls :
                                 /\ calls[k].route = r
                                 /\ calls[k].target_locale = target_locales[t])
    /\ [][(pc = "target" /\ ~navLog'[Len(navLog')].ok)
              => /\ queue' = queue
                 /\ visited' = visited
                 /\ pages_crawled' = pages_crawled
                 /\ route \in visited'
                 /\ issues' = issues
                 /\ calls' = calls]_vars

\* The first target locale of "/" failed, the second was analyzed, the links
\* of "/" stayed in the frontier and the run went on.
C5_Witness ==
    /\ target_locales = <<"fr", "es">>
    /\ \E i \in TargetTries \cap FailedTries :
           navLog[i].route = "/" /\ navLog[i].locale = "fr"
    /\ \E k \in DOMAIN calls :
           calls[k].route = "/" /\ calls[k].target_locale = "es"
    /\ pages_crawled = 2
    /\ pc = "done"

(***************************************************************************)
(* C6 as stated.  Of two processed routes, the one at the smaller link     *)
(* distance from "/" in the site's link graph is processed first.          *)
(***************************************************************************)
C6_Original == BreadthFirst({})

(***************************************************************************)
(* C6 amended.  Of two processed routes, the one at the smaller link       *)
(* distance from "/" is processed first, the distance being counted along  *)
(* the links of the pages whose source load succeeded (the links of a page *)
(* that failed to load are never seen).                                    *)
(***************************************************************************)
C6_BreadthFirstOverLoadedPages == BreadthFirst(FailedRoutes)

\* "/a" failed to load, so "/x" (two links from "/" through "/a") was found
\* only on "/d", and was processed after "/y" (three links from "/").
C6_Witness ==
    /\ site = "deep"
    /\ pc = "done"
    /\ "/a" \in FailedRoutes
    /\ \E i, j \in DOMAIN ProcessedOrder :
           i < j /\ ProcessedOrder[i] = "/y" /\ ProcessedOrder[j] = "/x"

(***************************************************************************)
(* C7 as stated.  The run terminates, and it terminates exactly when the   *)
(* frontier is empty or the page counter has reached max_pages.            *)
(***************************************************************************)
Terminated == pc \in {"done", "aborted"}

BudgetOrFrontierExhausted == queue = <<>> \/ pages_crawled = max_pages

C7_Original == Terminated => BudgetOrFrontierExhausted

(***************************************************************************)
(* C7 amended.  The run terminates; it returns exactly when, at the loop   *)
(* test, the frontier is empty or the page counter has reached max_pages;  *)
(* the only other way it ends is an exception raised by the analyzer call, *)
(* which ends the run at once, whatever the frontier and the counter.      *)
(***************************************************************************)
C7_TerminatesAtLoopTestOrAnalyzerError ==
    /\ <>Terminated
    /\ [](pc = "done" => BudgetOrFrontierExhausted)
    /\ [][(pc = "loop" /\ BudgetOrFrontierExhausted) => pc' = "done"]_vars
    /\ [](pc = "aborted" => calls # <<>> /\ calls[Len(calls)].result = Raised)

\* A run on the ever-growing site returned because the budget was used up.
C7_Witness ==
    /\ site = "grow"
    /\ pc = "done"
    /\ queue # <<>>
    /\ pages_crawled = max_pages
    /\ max_pages = MaxPagesBound

(***************************************************************************)
(* C8.  The page counter counts the routes processed: it equals the size   *)
(* of the visited set and the number of routes taken up for a source       *)
(* navigation, failed ones included; routes still in the frontier and      *)
(* dequeued routes discarded as already visited are not counted.           *)
(***************************************************************************)
C8_CounterCountsProcessedRoutes ==
    /\ pages_crawled = Cardinality(visited)
    /\ pages_crawled =
           Cardinality(SourceTries) + (IF pc = "source" THEN 1 ELSE 0)
    /\ FailedRoutes \subseteq visited
    /\ pages_crawled <= dequeued

\* A returned run with a failed route, a discarded duplicate and routes left
\* in the frontier.
C8_Witness ==
    /\ pc = "done"
    /\ FailedRoutes # {}
    /\ dequeued > pages_crawled
    /\ \E k \in DOMAIN queue : queue[k] \notin visited

(***************************************************************************)
(* C9.  An issue is recorded for a compared pair exactly when the          *)
(* analyzer's answer does not contain the phrase "no localization issues", *)
(* letters compared without regard to case: in both commands the issue     *)
(* list is, in call order, the analyzer calls that returned such an        *)
(* answer.  An issue of crawl_and_analyze is for a route and target locale *)
(* whose target leg was loaded and captured, never for a failed leg; an    *)
(* issue of ftl_analyze is for a .png file present in both the source and  *)
(* the target directory of its device.                                     *)
(***************************************************************************)
SameLetter(c, d) ==
    \/ c = d
    \/ \E j \in 1..Len(UpperChars) :
           {c, d} = {CharAt(UpperChars, j), CharAt(LowerChars, j)}

ContainsIgnoringCase(s, phrase) ==
    \E i \in 1..(Len(s) - Len(phrase) + 1) :
        \A k \in 1..Len(phrase) :
            SameLetter(CharAt(s, i + k - 1), CharAt(phrase, k))

\* The answers that carry the no-issue phrase.
NoIssueAnswers ==
    { r \in Responses : ContainsIgnoringCase(r, "no localization issues") }

\* The analyzer calls that returned an answer without the phrase.
DriftCalls ==
    LET Drift(c) == c.result # Raised /\ c.result \notin NoIssueAnswers
    IN  SelectSeq(calls, Drift)

\* name is a .png file of the directory groups has for device and locale.
PngOfDevice(device, locale, name) ==
    /\ device \in DOMAIN groups.dirs
    /\ locale \in DOMAIN groups.dirs[device]
    /\ \E e \in fs : e.path = Append(groups.dirs[device][locale], name)
    /\ \E n \in 0..(Len(name) - 4) :
           /\ n + 4 = Len(name)
           /\ ContainsIgnoringCase(SubSeq(name, n + 1, Len(name)), ".png")

C9_IssuesAreTheAnalyzedPairsThatReportedDrift ==
    /\ Len(issues) = Len(DriftCalls)
    /\ \A k \in DOMAIN issues :
        /\ issues[k].analysis = DriftCalls[k].result
        /\ issues[k].target_locale = DriftCalls[k].target_locale
        /\ IF command = "crawl"
           THEN /\ issues[k].route = DriftCalls[k].route
                /\ \E i \in TargetTries \ FailedTries :
                       /\ navLog[i].route = issues[k].route
                       /\ navLog[i].locale = issues[k].target_locale
                /\ \A i \in TargetTries \cap FailedTries :
                       \/ navLog[i].route # issues[k].route
                       \/ navLog[i].locale # issues[k].target_locale
                /\ issues[k].route \in LoadedRoutes
           ELSE /\ issues[k].device = DriftCalls[k].device
                /\ issues[k].filename = DriftCalls[k].filename
                /\ PngOfDevice(issues[k].device, source_locale,
                               issues[k].filename)
                /\ PngOfDevice(issues[k].device, issues[k].target_locale,
                               issues[k].filename)

\* A returned crawl in which one pair reported drift, one was answered with
\* the no-issue phrase and one target leg failed.
C9_Witness ==
    /\ command = "crawl"
    /\ pc = "done"
    /\ Len(issues) = 1
    /\ \E k \in DOMAIN calls : calls[k].result \in NoIssueAnswers
    /\ TargetTries \cap FailedTries # {}

\* A returned ftl_analyze run in which one file reported drift, one was
\* answered with the no-issue phrase and unmatched files were skipped.
FtlDriftScenario ==
    /\ command = "ftl-analyze"
    /\ pc = "done"
    /\ issues # <<>>
    /\ \E k \in DOMAIN calls : calls[k].result \in NoIssueAnswers
    /\ skipLog # <<>>

(***************************************************************************)
(* C10.  The analyzer is called exactly once for each (route, target       *)
(* locale) whose source-side and target-side navigation and capture both   *)
(* succeeded, and for no other pair; a returned run without failures made  *)
(* pagesCrawled times the number of target locales calls.                  *)
(***************************************************************************)
CallPairs == { <<calls[k].route, calls[k].target_locale>> : k \in DOMAIN calls }

CapturedPairs ==
    { <<navLog[i].route, navLog[i].locale>> : i \in TargetTries \ FailedTries }

\* The pair captured and about to be handed to the analyzer.
PendingPair ==
    IF pc = "analyze" THEN {<<route, target_locales[target_idx]>>} ELSE {}

C10_OneAnalyzerCallPerCapturedPair ==
    /\ \A k, l \in DOMAIN calls :
           (/\ calls[k].route = calls[l].route
            /\ calls[k].target_locale = calls[l].target_locale) => k = l
    /\ CallPairs = CapturedPairs \ PendingPair
    /\ \A i \in TargetTries :
           /\ navLog[i].route \in LoadedRoutes
           /\ \E t \in DOMAIN target_locales : navLog[i].locale = target_locales[t]
    /\ (pc = "done" /\ FailedTries = {})
           => Len(calls) = pages_crawled * Len(target_locales)

\* Two target locales, a failed leg and analyzed legs in one returned run.
C10_Witness ==
    /\ pc = "done"
    /\ Len(target_locales) = 2
    /\ TargetTries \cap FailedTries # {}
    /\ Len(calls) >= 2

(***************************************************************************)
(* C11.  Nothing is retried in crawl_and_analyze.  Once the source-side    *)
(* navigation or capture of route r has failed, no step (the failing one   *)
(* included) appends r to the frontier and the source URL of r is not      *)
(* navigated again; once the                                               *)
(* target-side navigation or capture of (r, t) has failed, the target URL  *)
(* of (r, t) is not navigated again.                                       *)
(***************************************************************************)
\* How many times route r stands in frontier q.
Occurrences(q, r) == Cardinality({ k \in DOMAIN q : q[k] = r })

C11_NothingIsRetried ==
    /\ [](\A i \in FailedTries : \A j \in DOMAIN navLog :
              j > i => navLog[j].url # navLog[i].url)
    /\ [][\A r \in FailedRoutes' :
              Occurrences(queue', r) <= Occurrences(queue, r)]_vars

\* On the site whose pages link to each other, /a failed to load, a page
\* loaded after that failure links to /a again, a target leg failed as well,
\* and the run went on to its return.
C11_Witness ==
    /\ site = "dup"
    /\ pc = "done"
    /\ \E i \in SourceTries \cap FailedTries :
           /\ navLog[i].route = "/a"
           /\ \E j \in SourceTries \ FailedTries :
                  j > i /\ "/a" \in RouteLinks(navLog[j].route)
    /\ \E i \in TargetTries \cap FailedTries : i < Len(navLog)

(***************************************************************************)
(* C12.  An analyzer failure is not contained.  In crawl_and_analyze and   *)
(* in ftl_analyze, a call of the analyzer that raises ends the run at      *)
(* once: the run is aborted in the state the call leaves, no step follows  *)
(* (no route, target locale, device or file is taken up, no call is made)  *)
(* and the run never returns, so the issues collected so far reach no      *)
(* caller.                                                                 *)
(***************************************************************************)
\* The calls of the analyzer that raised.
RaisedCalls == { k \in DOMAIN calls : calls[k].result = Raised }

C12_AnalyzerFailureAbortsTheRun ==
    /\ [](RaisedCalls # {} => pc = "aborted" /\ RaisedCalls = {Len(calls)})
    /\ [](pc = "aborted" => RaisedCalls # {})
    /\ [][pc # "aborted"]_vars

\* A crawl aborted by the analyzer with an issue already collected, a route
\* still on the frontier and page budget left.
C12_Witness ==
    /\ command = "crawl"
    /\ pc = "aborted"
    /\ issues # <<>>
    /\ queue # <<>>
    /\ pages_crawled < max_pages

\* An ftl_analyze run aborted by the analyzer with an issue already collected
\* and a matched file still to compare.
FtlAbortScenario ==
    /\ command = "ftl-analyze"
    /\ pc = "aborted"
    /\ issues # <<>>
    /\ file_idx < Len(matched)

(***************************************************************************)
(* C13.  A missing analyzer credential aborts the run before any work:     *)
(* with no credential configured, crawl_and_analyze makes no navigation    *)
(* or capture and ftl_analyze lists and matches no files.                  *)
(***************************************************************************)
C13_MissingCredentialAbortsBeforeAnyWork ==
    ~api_key =>
        /\ navLog = <<>>
        /\ source_pngs = {} /\ matched = <<>> /\ skipLog = <<>>

\* What the code does without a credential: the error is raised by the first
\* analyzer call, after the navigations and the matching that lead to it; a
\* run that reaches no analyzer call returns normally.
MissingCredentialRaisesAtFirstCall ==
    ~api_key =>
        /\ Len(calls) <= 1
        /\ issues = <<>>
        /\ pc = "aborted" <=> calls # <<>>
        /\ (command = "crawl" /\ calls # <<>>) => Len(navLog) >= 2
        /\ (command = "ftl-analyze" /\ calls # <<>>) => matched # <<>>

(***************************************************************************)
(* C14.  In ftl_analyze, for a device and a target locale that both have   *)
(* a directory, the matched files are the names that are .png files        *)
(* (extension in any letter case, names equal as written) of both the      *)
(* source and the target directory, and the skipped files are the .png     *)
(* names of exactly one of the two.  The analyzer is called once for each  *)
(* matched name, never for a skipped one, and skipped files do not keep    *)
(* the matched ones from being compared: a run that returns has made one   *)
(* call for every matched name of every such pair.                         *)
(***************************************************************************)
\* The names of the files of directory dir that end in .png, in any case.
PngNames(dir) ==
    { e.path[Len(e.path)] :
        e \in { x \in fs :
                  /\ ~x.dir
                  /\ Len(x.path) = Len(dir) + 1
                  /\ SubSeq(x.path, 1, Len(dir)) = dir
                  /\ LET name == x.path[Len(x.path)]
                     IN  /\ Len(name) >= 4
                         /\ ContainsIgnoringCase(
                                SubSeq(name, Len(name) - 3, Len(name)), ".png") } }

\* The (device, target locale) pairs with a source and a target directory.
ComparablePairs ==
    { dt \in (DOMAIN groups.dirs) \X { target_locales[t] : t \in DOMAIN target_locales } :
        /\ source_locale \in DOMAIN groups.dirs[dt[1]]
        /\ dt[2] \in DOMAIN groups.dirs[dt[1]] }

InBoth(dt) ==
    PngNames(groups.dirs[dt[1]][source_locale])
        \cap PngNames(groups.dirs[dt[1]][dt[2]])

InOne(dt) ==
    (PngNames(groups.dirs[dt[1]][source_locale])
        \cup PngNames(groups.dirs[dt[1]][dt[2]])) \ InBoth(dt)

\* The calls made for file name of pair dt.
CallsFor(dt, name) ==
    { k \in DOMAIN calls : /\ calls[k].device = dt[1]
                           /\ calls[k].target_locale = dt[2]
                           /\ calls[k].filename = name }

C14_MatchedIsIntersectionSkippedIsSymmetricDifference ==
    /\ pc = "ftl_file" =>
           LET dt == <<DeviceKey, target_locales[target_idx]>>
               logged == { k \in DOMAIN skipLog :
                             /\ skipLog[k].device = dt[1]
                             /\ skipLog[k].target_locale = dt[2] }
           IN  /\ dt \in ComparablePairs
               /\ { matched[k] : k \in DOMAIN matched } = InBoth(dt)
               /\ Len(matched) = Cardinality(InBoth(dt))
               /\ IF InOne(dt) = {} THEN logged = {}
                  ELSE /\ logged = {Len(skipLog)}
                       /\ skipLog[Len(skipLog)].skipped = InOne(dt)
                       /\ skipLog[Len(skipLog)].count = Cardinality(InOne(dt))
               /\ \A k \in 1..(file_idx - 1) :
                      Cardinality(CallsFor(dt, matched[k])) = 1
    /\ \A k \in DOMAIN calls :
           LET dt == <<calls[k].device, calls[k].target_locale>>
           IN  /\ dt \in ComparablePairs
               /\ calls[k].filename \in InBoth(dt)
               /\ calls[k].filename \notin InOne(dt)
               /\ CallsFor(dt, calls[k].filename) = {k}
    /\ pc = "done" =>
           \A dt \in ComparablePairs : \A name \in InBoth(dt) :
               Cardinality(CallsFor(dt, name)) = 1

\* A returned run that skipped a.png and c.png of a pair and compared its
\* b.png and its d.PNG.
C14_Witness ==
    /\ command = "ftl-analyze"
    /\ pc = "done"
    /\ \E k \in DOMAIN skipLog : skipLog[k].skipped = {"a.png", "c.png"}
    /\ \E k, l \in DOMAIN calls :
           /\ calls[k].filename = "b.png"
           /\ calls[l].filename = "d.PNG"
           /\ calls[k].device = calls[l].device
           /\ calls[k].target_locale = calls[l].target_locale

(***************************************************************************)
(* C15.  In ftl_analyze, a device without a source-locale directory gets   *)
(* no analyzer call, no issue and no skipped-files line; a device with a   *)
(* source-locale directory that lacks the directory of a target locale     *)
(* gets none of them for that target locale only: when the run returns,    *)
(* every matched file of every other target locale of the device has been  *)
(* analyzed, wherever the missing locale stands in the list.               *)
(***************************************************************************)
\* The work recorded for device and target locale: calls, issues, skip lines.
WorkFor(device, target_locale) ==
    [calls |-> { k \in DOMAIN calls : /\ calls[k].device = device
                                      /\ calls[k].target_locale = target_locale },
     issues |-> { k \in DOMAIN issues : /\ issues[k].device = device
                                        /\ issues[k].target_locale = target_locale },
     skips |-> { k \in DOMAIN skipLog : /\ skipLog[k].device = device
                                        /\ skipLog[k].target_locale = target_locale }]

NoWork == [calls |-> {}, issues |-> {}, skips |-> {}]

C15_MissingDirectorySkipsDeviceOrPair ==
    \A device \in DOMAIN groups.dirs :
        \A t \in DOMAIN target_locales :
            LET dirs == groups.dirs[device]
                target_locale == target_locales[t]
            IN  IF source_locale \notin DOMAIN dirs \/ target_locale \notin DOMAIN dirs
                THEN WorkFor(device, target_locale) = NoWork
                ELSE pc = "done" =>
                         { calls[k].filename :
                             k \in WorkFor(device, target_locale).calls }
                           = InBoth(<<device, target_locale>>)

\* A returned run over the tree with the gaps: the device without its first
\* target locale had its second target locale analyzed.
C15_Witness ==
    /\ command = "ftl-analyze"
    /\ pc = "done"
    /\ fs = GapsTree
    /\ target_locales = <<"fr", "es">>
    /\ WorkFor("walleye-28-portrait", "es").calls # {}
    /\ "redfin-30-portrait" \in DOMAIN groups.dirs

(***************************************************************************)
(* C16.  _parse_device_key cuts a directory name at its hyphens.  A name   *)
(* with at least three hyphens (four segments or more) gives the device    *)
(* key made of the name up to its second hyphen followed by the name from  *)
(* its third hyphen on, and the locale between the second and the third    *)
(* hyphen; starlte-29-en-portrait gives (starlte-29-portrait, en).  A name *)
(* with fewer hyphens gives None.  In _group_device_dirs, under the root   *)
(* or three levels below it, a directory with such a name adds no entry    *)
(* and leaves the index as it is without that directory.                   *)
(***************************************************************************)
\* The positions of the hyphens of s, and the n-th of them.
Dashes(s) == { i \in 1..Len(s) : CharAt(s, i) = "-" }

NthDash(s, n) ==
    CHOOSE i \in Dashes(s) : Cardinality({ j \in Dashes(s) : j < i }) = n - 1

\* The name of the device directory an index entry stands for.
EntryName(path) ==
    IF path[Len(path)] = "artifacts" THEN path[Len(path) - 1]
    ELSE path[Len(path)]

C16_ParseDeviceKey ==
    /\ Returned("_parse_device_key") =>
           LET d == callee_in.dirname
           IN  /\ Cardinality(Dashes(d)) < 3 => Result = None
               /\ Cardinality(Dashes(d)) >= 3 =>
                      /\ Result[1] = SubSeq(d, 1, NthDash(d, 2) - 1)
                                         \o SubSeq(d, NthDash(d, 3), Len(d))
                      /\ Result[2] = SubSeq(d, NthDash(d, 2) + 1, NthDash(d, 3) - 1)
               /\ d = "starlte-29-en-portrait" =>
                      Result = <<"starlte-29-portrait", "en">>
    /\ Returned("_group_device_dirs") =>
           /\ Result = _group_device_dirs(callee_in.base, callee_in.root)
           /\ \A key \in DOMAIN Result.dirs : \A l \in DOMAIN Result.dirs[key] :
                  Cardinality(Dashes(EntryName(Result.dirs[key][l]))) >= 3

\* A name of five segments was parsed: the hyphen of its tail is kept.
C16_Witness ==
    /\ Returned("_parse_device_key")
    /\ callee_in.dirname = "starlte-29-en-portrait-en"
    /\ Result = <<"starlte-29-portrait-en", "en">>

\* Directories with short names were added three levels down to a tree that
\* has device directories there, and the index was built.
StrayDirsScenario ==
    /\ Returned("_group_device_dirs")
    /\ callee_in.base = NestedTree
    /\ callee_in.tree # callee_in.base
    /\ Result.order # <<>>

(***************************************************************************)
(* C17.  _group_device_dirs never mixes the two topologies.  When a        *)
(* directory directly under the root has a name that parses as a device    *)
(* directory, every entry of the index is a directory directly under the   *)
(* root and no directory further down contributes; only when there is none *)
(* do the entries come from three levels below the root.                   *)
(***************************************************************************)
\* The directories directly under root whose names have four segments or more.
FlatDeviceDirs(tree, root) ==
    { e.path : e \in { x \in tree : /\ x.dir
                                    /\ Len(x.path) = Len(root) + 1
                                    /\ SubSeq(x.path, 1, Len(root)) = root
                                    /\ Cardinality(Dashes(x.path[Len(x.path)])) >= 3 } }

\* The directories the index points to.
EntryPaths(g) == UNION { { g.dirs[key][l] : l \in DOMAIN g.dirs[key] } :
                         key \in DOMAIN g.dirs }

\* How far below root the device directory of an entry is.
EntryDepth(path, root) ==
    IF path[Len(path)] = "artifacts" THEN Len(path) - 1 - Len(root)
    ELSE Len(path) - Len(root)

C17_TopologiesAreExclusive ==
    Returned("_group_device_dirs") =>
        LET flat == FlatDeviceDirs(callee_in.tree, callee_in.root)
        IN  /\ flat # {} => EntryPaths(Result) \subseteq flat
            /\ flat = {} =>
                   \A path \in EntryPaths(Result) :
                       EntryDepth(path, callee_in.root) = 3
            /\ \A p, q \in EntryPaths(Result) :
                   EntryDepth(p, callee_in.root) = EntryDepth(q, callee_in.root)

\* The index of the tree with a device directory under the root and another
\* three levels down: the entry of the first only.
C17_Witness ==
    /\ Returned("_group_device_dirs")
    /\ callee_in.tree = MixedTree
    /\ EntryPaths(Result) = {Root \o <<"starlte-29-en-portrait">>}
    /\ \E e \in callee_in.tree :
           e.dir /\ Len(e.path) = Len(Root) + 3
                 /\ Cardinality(Dashes(e.path[Len(e.path)])) >= 3

(***************************************************************************)
(* C18.  _strip_locale_prefix looks at the first segment of the path.  A   *)
(* path that is exactly /<locale> gives "/"; a path whose first segment is *)
(* the locale and is followed by a slash gives the rest of the path from   *)
(* that slash on (it starts with "/", and /<locale> put before it gives    *)
(* the path back); every other path is returned unchanged, the paths whose *)
(* first segment is another locale or only begins with the locale (such as *)
(* /english/about for en) among them.                                      *)
(***************************************************************************)
\* The position of the first slash of q after its first character, or the
\* position after the end of q.
SegmentEnd(q) ==
    IF \E i \in 2..Len(q) : CharAt(q, i) = "/"
    THEN CHOOSE i \in 2..Len(q) :
             CharAt(q, i) = "/" /\ \A j \in 2..(i - 1) : CharAt(q, j) # "/"
    ELSE Len(q) + 1

\* q starts with a slash and its first segment is locale.
FirstSegmentIs(q, locale) ==
    /\ Len(q) >= 1
    /\ CharAt(q, 1) = "/"
    /\ SubSeq(q, 2, SegmentEnd(q) - 1) = locale

C18_StripLocalePrefix ==
    Returned("_strip_locale_prefix") =>
        LET q == callee_in.path
            l == callee_in.locale
        IN  /\ (FirstSegmentIs(q, l) /\ SegmentEnd(q) > Len(q)) => Result = "/"
            /\ (FirstSegmentIs(q, l) /\ SegmentEnd(q) <= Len(q)) =>
                   /\ Result = SubSeq(q, SegmentEnd(q), Len(q))
                   /\ CharAt(Result, 1) = "/"
                   /\ "/" \o l \o Result = q
            /\ ~FirstSegmentIs(q, l) => Result = q
            /\ (q = "/en/about" /\ l = "en") => Result = "/about"
            /\ (q = "/en" /\ l = "en") => Result = "/"
            /\ (q = "/english/about" /\ l = "en") => Result = "/english/about"
            /\ (q = "/fr/about" /\ l = "en") => Result = "/fr/about"

\* The path whose first segment only begins with the locale came back as it
\* was.
C18_Witness ==
    /\ Returned("_strip_locale_prefix")
    /\ callee_in.path = "/english/about"
    /\ callee_in.locale = "en"
    /\ Result = "/english/about"

(***************************************************************************)
(* C19.  Round trip of the locale URL mapper.  For a route r that starts   *)
(* with "/" and whose first segment is not a locale, the path of           *)
(* _build_locale_url(base, locale, r), stripped of the same locale by      *)
(* _strip_locale_prefix, is r.  As stated, for every base URL:             *)
(* C19_Original.  For base URLs that name no path (scheme://host, with any *)
(* number of trailing slashes): C19_RoundTripForOriginBases.               *)
(***************************************************************************)
\* The first segment of route q is a locale.
LocaleFirst(q) == \E l \in Locales : FirstSegmentIs(q, l)

\* What the round trip makes of the URL the call built.
RoundTrip == _strip_locale_prefix(UrlParse(Result).path, callee_in.locale)

\* base has nothing but slashes after its host.
IsOrigin(base) ==
    LET host == Find(base, "://", 1) + 3
    IN  \A i \in host..Len(base) :
            CharAt(base, i) = "/" => \A j \in i..Len(base) : CharAt(base, j) = "/"

C19_Original ==
    (Returned("_build_locale_url") /\ ~LocaleFirst(callee_in.route))
        => RoundTrip = callee_in.route

C19_RoundTripForOriginBases ==
    (/\ Returned("_build_locale_url")
     /\ ~LocaleFirst(callee_in.route)
     /\ IsOrigin(callee_in.base))
        => RoundTrip = callee_in.route

\* A URL was built on a base with a trailing slash, and the round trip gave
\* the route back.
C19_Witness ==
    /\ Returned("_build_locale_url")
    /\ callee_in.base = "https://example.com/"
    /\ callee_in.locale = "fr"
    /\ callee_in.route = "/about/english"
    /\ Result = "https://example.com/fr/about/english"
    /\ RoundTrip = "/about/english"

(***************************************************************************)
(* C20.  Link normalization.  _extract_same_domain_links drops every href  *)
(* that names a host other than the host of the base URL and turns every   *)
(* other href into its normalized path: "/" for an empty path, a leading   *)
(* "/" forced, no trailing "/" unless the path is exactly "/"; the result  *)
(* is the set of these paths.  For the hrefs                               *)
(* https://example.com/en/about and https://other.com/x and the base       *)
(* https://example.com it is {"/en/about"}.                                *)
(***************************************************************************)
\* q with a leading slash: "/" for the empty path.
WithLeadingSlash(q) ==
    IF q = "" THEN "/"
    ELSE IF CharAt(q, 1) = "/" THEN q ELSE "/" \o q

\* q is "/" or does not end with a slash.
NoTrailingSlash(q) == q = "/" \/ (q # "" /\ CharAt(q, Len(q)) # "/")

\* The normalized path of path q: q with its leading slash, cut before its
\* trailing slashes, the root kept.
NormalizedPath(q) ==
    LET full == WithLeadingSlash(q)
        cut == CHOOSE n \in 1..Len(full) :
                   /\ NoTrailingSlash(SubSeq(full, 1, n))
                   /\ \A j \in (n + 1)..Len(full) : CharAt(full, j) = "/"
    IN  SubSeq(full, 1, cut)

\* The hrefs that name no host or the host of base.
SameHost(hrefs, base) ==
    { h \in hrefs : UrlParse(h).netloc \in {"", UrlParse(base).netloc} }

C20_LinkNormalization ==
    Returned("_extract_same_domain_links") =>
        /\ Result = { NormalizedPath(UrlParse(h).path) :
                        h \in SameHost(callee_in.hrefs, callee_in.base) }
        /\ \A q \in Result : CharAt(q, 1) = "/" /\ NoTrailingSlash(q)
        /\ (/\ callee_in.hrefs = {"https://example.com/en/about",
                                  "https://other.com/x"}
            /\ callee_in.base = "https://example.com")
               => Result = {"/en/about"}

\* The path of href h is made of two slashes or more.
OnlySlashes(h) ==
    LET q == UrlParse(h).path
    IN  Len(q) >= 2 /\ \A i \in 1..Len(q) : CharAt(q, i) = "/"

\* What the code does: the claimed result, unless an href has a path of
\* slashes only, which it turns into the empty string.
LinkNormalizationButForSlashPaths ==
    Returned("_extract_same_domain_links") =>
        LET kept == SameHost(callee_in.hrefs, callee_in.base)
        IN  Result = { NormalizedPath(UrlParse(h).path) :
                         h \in { x \in kept : ~OnlySlashes(x) } }
                     \cup { "" : h \in { x \in kept : OnlySlashes(x) } }

(***************************************************************************)
(* C21.  A report groups the issues by their primary context key, the      *)
(* route in _print_report and the device in _print_ftl_report: each key of *)
(* the issue list is printed as exactly one group, the groups come in the  *)
(* order in which their keys are first seen in the list, the issues of a   *)
(* group are printed in the order they have in the list, and every issue   *)
(* of the list is printed once, also when two issues carry the same        *)
(* analysis text.                                                          *)
(***************************************************************************)
\* A report has been printed.
ReportPrinted == Returned("_print_report") \/ Returned("_print_ftl_report")

\* The field the report groups by, and the start of its group headings.
KeyField == IF callee_in.fn = "_print_report" THEN "route" ELSE "device"

HeadingStart ==
    IF callee_in.fn = "_print_report" THEN "\n--- Route: " ELSE "\n--- Device: "

IssueStart == "\n  Locale: "

\* The positions of the group headings and of the first lines of the issues
\* in the printed report.
Headings == { i \in DOMAIN Result : StartsWith(Result[i], HeadingStart) }

IssueHeads == { i \in DOMAIN Result : StartsWith(Result[i], IssueStart) }

\* The key a heading names.
KeyAt(i) ==
    SubSeq(Result[i], Len(HeadingStart) + 1, Len(Result[i]) - Len(" ---"))

\* The elements of a set of numbers, in ascending order.
RECURSIVE Ascending(_)
Ascending(S) ==
    IF S = {} THEN <<>>
    ELSE LET m == CHOOSE x \in S : \A y \in S : x <= y
         IN  <<m>> \o Ascending(S \ {m})

\* The first position after i that ends the block of lines starting at i: a
\* heading, the first line of an issue, or the closing rule.
BlockEnd(i) ==
    CHOOSE j \in (i + 1)..Len(Result) :
        /\ j \in Headings \cup IssueHeads \cup {Len(Result)}
        /\ \A k \in (i + 1)..(j - 1) : k \notin Headings \cup IssueHeads

\* What the report shows of an issue: its locale line and the lines below it.
Shown(issue) ==
    <<IssueStart \o issue.target_locale>>
        \o (IF callee_in.fn = "_print_ftl_report"
            THEN <<"  File: " \o issue.filename>> ELSE <<>>)
        \o AnalysisLines(issue)

\* The blocks of issue lines printed under the heading at position i.
PrintedUnder(i) ==
    LET heads == Ascending({ j \in IssueHeads :
                                 j > i /\ \A h \in Headings : h > i => j < h })
    IN  [n \in 1..Len(heads) |-> SubSeq(Result, heads[n], BlockEnd(heads[n]) - 1)]

\* The issues of the list with key k, in list order.
IssuesOf(k) ==
    LET found == callee_in.issues
        HasKey(issue) == issue[KeyField] = k
    IN  SelectSeq(found, HasKey)

\* The position at which key k is first seen in the issue list.
FirstSeen(k) ==
    CHOOSE n \in DOMAIN callee_in.issues :
        /\ callee_in.issues[n][KeyField] = k
        /\ \A m \in 1..(n - 1) : callee_in.issues[m][KeyField] # k

C21_ReportGroupsByKeyInFirstSeenOrder ==
    ReportPrinted =>
        LET found == callee_in.issues
        IN  /\ { KeyAt(i) : i \in Headings }
                   = { found[n][KeyField] : n \in DOMAIN found }
            /\ \A i, j \in Headings : KeyAt(i) = KeyAt(j) => i = j
            /\ \A i, j \in Headings :
                   i < j => FirstSeen(KeyAt(i)) < FirstSeen(KeyAt(j))
            /\ \A i \in Headings :
                   PrintedUnder(i) =
                       [n \in 1..Len(IssuesOf(KeyAt(i))) |->
                           Shown(IssuesOf(KeyAt(i))[n])]
            /\ Cardinality(IssueHeads) = Len(found)

\* A report was printed for three issues: two of one route with the same
\* analysis text and the same locale, an issue of another route between them.
C21_Witness ==
    /\ Returned("_print_report")
    /\ Len(callee_in.issues) = 3
    /\ callee_in.issues[1] = callee_in.issues[3]
    /\ callee_in.issues[1].route = "/about"
    /\ callee_in.issues[2].route = "/"
    /\ Cardinality(Headings) = 2
    /\ Cardinality(IssueHeads) = 3

\* A device report was printed for issues of two devices, the second device
\* of the list seen again after the first.
FtlReportScenario ==
    /\ Returned("_print_ftl_report")
    /\ Len(callee_in.issues) = 3
    /\ callee_in.issues[1].device # callee_in.issues[2].device
    /\ callee_in.issues[3].device = callee_in.issues[1].device
    /\ Cardinality(Headings) = 2

(***************************************************************************)
(* C22.  ftl_analyze raises FileNotFoundError when screenshots_dir is not  *)
(* an existing directory (it does not exist, or it is a file), and only    *)
(* then.  It raises before anything else: no directory is grouped, no file *)
(* listed or matched, the analyzer is not called, and the run ends there   *)
(* without returning an issue list.                                        *)
(***************************************************************************)
\* Nothing of ftl_analyze after its first check has run.
NothingStarted ==
    /\ groups = EmptyGroups
    /\ device_idx = 0
    /\ file_idx = 0
    /\ source_pngs = {}
    /\ matched = <<>>
    /\ skipLog = <<>>
    /\ calls = <<>>
    /\ issues = <<>>

C22_MissingDirectoryRaisesBeforeAnyWork ==
    /\ []((pc # "ftl_start" /\ ~IsDir(fs, screenshots_dir))
              => (pc = "not_found" /\ NothingStarted))
    /\ [](pc = "not_found" => ~IsDir(fs, screenshots_dir))
    /\ [][pc # "not_found"]_vars

\* The run was given the path of a file of the tree and has raised.
C22_Witness ==
    /\ command = "ftl-analyze"
    /\ pc = "not_found"
    /\ fs = StrayTree
    /\ screenshots_dir = Root \o <<"a.png">>
    /\ \E e \in fs : e.path = screenshots_dir /\ ~e.dir

(***************************************************************************)
(* C23.  Every route that is placed in the frontier or in the visited set  *)
(* is a well-formed route: it starts with "/" and does not end with "/"    *)
(* unless it is the root route "/", whatever hrefs the pages report: paths *)
(* that are empty, that have repeated or trailing slashes, or that consist *)
(* of slashes only.                                                        *)
(***************************************************************************)
WellFormedRoute(r) ==
    /\ Len(r) >= 1
    /\ CharAt(r, 1) = "/"
    /\ (r = "/" \/ CharAt(r, Len(r)) # "/")

C23_RoutesAreWellFormed == \A r \in DiscoveredRoutes : WellFormedRoute(r)

\* What the code does: a route is well formed, or it is the empty string, and
\* the empty string comes from an href whose path has slashes only.
RoutesAreWellFormedOrEmpty ==
    /\ \A r \in DiscoveredRoutes : r = "" \/ WellFormedRoute(r)
    /\ "" \in DiscoveredRoutes =>
           \E q \in LoadedRoutes :
               \E h \in SiteLinks(site, source_locale, q) : OnlySlashes(h)

\* The empty route was taken from the frontier and its page was loaded.
EmptyRouteCrawled == "" \in LoadedRoutes /\ pc = "done"

(***************************************************************************)
(* C24.  Route normalization is idempotent: the normalization of the crawl *)
(* (the path normalization of _extract_same_domain_links, then             *)
(* _strip_locale_prefix with the source locale), applied to a route it has *)
(* produced, returns that route unchanged.                                 *)
(***************************************************************************)
\* The normalization applied to route r, with the locale of the call.
NormalizedAgain(r) ==
    _strip_locale_prefix(NormalizePath([netloc |-> "", path |-> r]),
                         callee_in.locale)

C24_NormalizationIsIdempotent ==
    Returned("discover_links") => \A r \in Result : NormalizedAgain(r) = r

\* What the code does: the route comes back unchanged unless it is the empty
\* string (made of a path of slashes only), which becomes "/", or its first
\* segment is the locale (it came from a path with the locale segment twice),
\* in which case one more locale prefix is removed.
IdempotentButForEmptyAndLocaleFirstRoutes ==
    Returned("discover_links") =>
        \A r \in Result :
            IF r = "" THEN NormalizedAgain(r) = "/"
            ELSE IF FirstSegmentIs(r, callee_in.locale)
                 THEN /\ NormalizedAgain(r) # r
                      /\ "/" \o callee_in.locale \o NormalizedAgain(r)
                             \in {r, r \o "/"}
                 ELSE NormalizedAgain(r) = r

\* Links with trailing slashes and with the locale segment twice were
\* normalized: the route of the first comes back unchanged, the route of the
\* second does not.
RepeatedLocaleScenario ==
    /\ Returned("discover_links")
    /\ callee_in.hrefs = {"/en/contact//", "https://example.com/en/en/about"}
    /\ callee_in.locale = "en"
    /\ Result = {"/contact", "/en/about"}
    /\ NormalizedAgain("/contact") = "/contact"
    /\ NormalizedAgain("/en/about") = "/about"

(***************************************************************************)
(* C25.  After a successful source load, the link discovery appends to the *)
(* frontier every locale-stripped link route of the page that is not in    *)
(* the visited set at that moment, and never a route that is in it (the    *)
(* route being processed included); whether the route is already in the    *)
(* frontier is not looked at, so the frontier can hold a route several     *)
(* times.  No other step appends to the frontier.  A dequeued route that   *)
(* is already visited is discarded: no navigation, no analyzer call, the   *)
(* page counter and the visited set as they were.                          *)
(***************************************************************************)
\* The routes a step has appended to the frontier, when queue' is queue with
\* routes appended.
Appended == SubSeq(queue', Len(queue) + 1, Len(queue'))

C25_VisitedIsTheOnlyDedupGate ==
    /\ [][pc = "links" =>
              /\ Len(queue') >= Len(queue)
              /\ SubSeq(queue', 1, Len(queue)) = queue
              /\ { Appended[k] : k \in DOMAIN Appended }
                     = RouteLinks(route) \ visited
              /\ route \in visited
              /\ visited' = visited]_vars
    /\ [][pc # "links" => (queue' = queue \/ queue' = Tail(queue))]_vars
    /\ [][(pc = "loop" /\ pc' # "done" /\ Head(queue) \in visited)
              => /\ queue' = Tail(queue)
                 /\ pc' = "loop"
                 /\ navLog' = navLog
                 /\ calls' = calls
                 /\ pages_crawled' = pages_crawled
                 /\ visited' = visited]_vars

\* On the site whose root page links twice to /a, /a was processed, its second
\* copy was discarded, and the frontier holds another route twice.
C25_Witness ==
    /\ site = "dup"
    /\ "/a" \in visited
    /\ dequeued > pages_crawled
    /\ pages_crawled < max_pages
    /\ \E i, j \in DOMAIN queue : i < j /\ queue[i] = queue[j]
    /\ "/a" \in RouteLinks("/b")

(***************************************************************************)
(* C26.  In each iteration of crawl_and_analyze the links are extracted    *)
(* while the source-locale page of the current route is the page loaded in *)
(* the browser: the extraction comes right after the successful source     *)
(* navigation and capture of the route and before any target-locale        *)
(* navigation of it, and the routes it enqueues are links of that page,    *)
(* never of a target-locale page or of the page of an earlier route.       *)
(***************************************************************************)
\* The source-locale page of route r.
SourcePage(r) ==
    [url |-> _build_locale_url(base_url, source_locale, r),
     locale |-> source_locale, route |-> r]

C26_LinksComeFromTheSourcePage ==
    /\ [](pc = "links" =>
              /\ page = SourcePage(route)
              /\ navLog # <<>>
              /\ navLog[Len(navLog)].side = "source"
              /\ navLog[Len(navLog)].route = route
              /\ navLog[Len(navLog)].ok
              /\ \A i \in TargetTries : navLog[i].route # route)
    /\ [][pc' = "links" => pc = "source"]_vars
    /\ [][pc = "links" =>
              /\ { queue'[k] : k \in (Len(queue) + 1)..Len(queue') }
                     \subseteq NormalizedLinks(
                                   SiteLinks(site, source_locale, route),
                                   base_url, source_locale)
              /\ pc' = "target"
              /\ navLog' = navLog
              /\ page' = page]_vars
    /\ [][Len(queue') > Len(queue) => pc = "links"]_vars

\* The links of /about were extracted after the pages of the target locales of
\* "/" had been loaded: the browser holds the source page of /about, and no
\* target page of /about has been asked for.
C26_Witness ==
    /\ site = "two"
    /\ route = "/about"
    /\ pc = "target"
    /\ target_idx = 1
    /\ page = SourcePage("/about")
    /\ \E i \in TargetTries \ FailedTries : navLog[i].route = "/"
    /\ \A i \in TargetTries : navLog[i].route # "/about"

(***************************************************************************)
(* C27.  The nested topology (no directory directly under the root parses  *)
(* as a device directory).  As stated, C27_Original: every directory three *)
(* levels below the root whose name has four segments or more has an entry *)
(* in the index under its device key and locale, and the entry points to   *)
(* the "artifacts" child of the directory when that child is a directory,  *)
(* to the directory itself otherwise; also when several run directories    *)
(* hold device directories of the same name.  Amended,                     *)
(* C27_NestedEntriesLastDirectoryWins: every such directory has an entry   *)
(* under its device key and locale, and the entry points to the artifacts  *)
(* child, or else to the directory itself, of the last of the directories  *)
(* with that device key and locale in the order of the traversal (locale   *)
(* directories, run directories and device directories each in sorted      *)
(* order); the index has no other entry.                                   *)
(***************************************************************************)
\* The device directories of the nested topology: the directories three
\* levels below root whose names have four segments or more.
DeepDeviceDirs(tree, root) ==
    { e.path : e \in { x \in tree : /\ x.dir
                                    /\ Len(x.path) = Len(root) + 3
                                    /\ SubSeq(x.path, 1, Len(root)) = root
                                    /\ Cardinality(Dashes(x.path[Len(x.path)])) >= 3 } }

\* The device key and the locale a directory name stands for.
KeyOfName(d) == SubSeq(d, 1, NthDash(d, 2) - 1) \o SubSeq(d, NthDash(d, 3), Len(d))

LocaleOfName(d) == SubSeq(d, NthDash(d, 2) + 1, NthDash(d, 3) - 1)

\* Where the images of device directory path are.
ImagesDir(tree, path) ==
    IF \E e \in tree : e.dir /\ e.path = Append(path, "artifacts")
    THEN Append(path, "artifacts")
    ELSE path

\* Path a comes before path b of the same length in the sorted traversal.
ComesBefore(a, b) ==
    \E i \in DOMAIN a :
        /\ \A j \in 1..(i - 1) : a[j] = b[j]
        /\ a[i] # b[i]
        /\ StrLess(a[i], b[i])

\* The nested topology applies to the tree of the call.
NestedTopology ==
    /\ Returned("_group_device_dirs")
    /\ FlatDeviceDirs(callee_in.tree, callee_in.root) = {}

\* The index has, for device directory path, the entry of directory winner.
HasEntry(path, winner) ==
    LET name == path[Len(path)]
    IN  /\ KeyOfName(name) \in DOMAIN Result.dirs
        /\ LocaleOfName(name) \in DOMAIN Result.dirs[KeyOfName(name)]
        /\ Result.dirs[KeyOfName(name)][LocaleOfName(name)]
               = ImagesDir(callee_in.tree, winner)

C27_Original ==
    NestedTopology =>
        \A path \in DeepDeviceDirs(callee_in.tree, callee_in.root) :
            HasEntry(path, path)

C27_NestedEntriesLastDirectoryWins ==
    NestedTopology =>
        LET deep == DeepDeviceDirs(callee_in.tree, callee_in.root)
            Same(a, b) == a[Len(a)] = b[Len(b)]
            Last(a) == CHOOSE b \in deep :
                           /\ Same(a, b)
                           /\ \A c \in deep \ {b} : Same(a, c) => ComesBefore(c, b)
        IN  /\ \A path \in deep : HasEntry(path, Last(path))
            /\ EntryPaths(Result)
                   = { ImagesDir(callee_in.tree, Last(path)) : path \in deep }

\* The index of the tree with the same device directory under two runs of a
\* locale: the entry is the artifacts directory of the second run.
C27_Witness ==
    /\ NestedTopology
    /\ callee_in.base = NestedTree
    /\ Cardinality(DeepDeviceDirs(callee_in.tree, callee_in.root)) >= 3
    /\ Result.dirs["starlte-29-portrait"]["fr"] =
           Root \o <<"fr", "ftl-results-2", "starlte-29-fr-portrait", "artifacts">>
    /\ Result.dirs["starlte-29-portrait"]["en"] =
           Root \o <<"en", "ftl-results-1", "starlte-29-en-portrait", "artifacts">>

\* The index of the tree with the device directory of one locale under two
\* locale directories: the entry is the directory under the later one.
CrossLocaleScenario ==
    /\ NestedTopology
    /\ callee_in.tree = CrossLocaleTree
    /\ Result.dirs["starlte-29-portrait"]["fr"] =
           Root \o <<"fr", "ftl-results-0", "starlte-29-fr-portrait">>

(***************************************************************************)
(* C28.  The issue list of a run is append-only.  In crawl_and_analyze and *)
(* in ftl_analyze every step leaves the issues recorded so far in place    *)
(* and in order and adds at most one issue at the end, so the list of any  *)
(* state is a prefix of the list of every later state; a step that does    *)
(* not call the analyzer (a navigation that fails among them) leaves the   *)
(* list as it is.                                                          *)
(***************************************************************************)
C28_IssuesAreAppendOnly ==
    /\ [][/\ Len(issues') \in {Len(issues), Len(issues) + 1}
          /\ SubSeq(issues', 1, Len(issues)) = issues]_vars
    /\ [][calls' = calls => issues' = issues]_vars
    /\ [][(navLog' # navLog /\ ~navLog'[Len(navLog')].ok)
              => issues' = issues]_vars

\* A crawl recorded an issue for "/", a navigation of a later route failed,
\* and an issue of that route followed the first one.
C28_Witness ==
    /\ command = "crawl"
    /\ Len(issues) = 2
    /\ issues[1].route = "/"
    /\ issues[2].route # "/"
    /\ \E i \in FailedTries : navLog[i].route = issues[2].route

\* An ftl_analyze run recorded issues for two devices.
FtlTwoIssuesScenario ==
    /\ command = "ftl-analyze"
    /\ \E k, l \in DOMAIN issues : k < l /\ issues[k].device # issues[l].device

(***************************************************************************)
(* C29.  Every analyzer call of crawl_and_analyze for route r and target   *)
(* locale t comes, within one loop iteration, after a successful source    *)
(* capture of r and then a successful capture of (r, t).  As stated,       *)
(* C29_Original: the two files handed to the analyzer are the ones those   *)
(* two captures wrote.  Amended, C29_AnalyzerGetsTheCapturesOfTheIteration:*)
(* the target file is the one the capture of (r, t) wrote, and the source  *)
(* file is the one the source capture of r wrote unless the source locale  *)
(* is itself a target locale at or before t whose capture succeeded: that  *)
(* capture is written to the file of the source capture, and it is the one *)
(* the analyzer is handed as the source screenshot.  In no case is a file  *)
(* left from another route handed over.                                    *)
(***************************************************************************)
\* The source capture and the target capture that lead to call c: navLog has
\* the successful source try of the route of c at s, the successful target try
\* of its route and target locale at t, and only target tries of the route
\* between them.
LeadUp(c, s, t) ==
    /\ s < t
    /\ navLog[s].side = "source" /\ navLog[s].ok
    /\ navLog[s].route = c.route /\ navLog[s].locale = source_locale
    /\ navLog[t].side = "target" /\ navLog[t].ok
    /\ navLog[t].route = c.route /\ navLog[t].locale = c.target_locale
    /\ \A j \in (s + 1)..t : navLog[j].side = "target" /\ navLog[j].route = c.route

\* The files of call c are named after its route and the two locales.
FilesNamedAfterPair(c) ==
    /\ c.source_screenshot = ScreenshotName(c.route, source_locale)
    /\ c.target_screenshot = ScreenshotName(c.route, c.target_locale)

C29_Original ==
    \A k \in DOMAIN calls :
        /\ FilesNamedAfterPair(calls[k])
        /\ \E s, t \in DOMAIN navLog :
               /\ LeadUp(calls[k], s, t)
               /\ calls[k].source_capture = s
               /\ calls[k].target_capture = t

C29_AnalyzerGetsTheCapturesOfTheIteration ==
    \A k \in DOMAIN calls :
        /\ FilesNamedAfterPair(calls[k])
        /\ \E s, t \in DOMAIN navLog :
               /\ LeadUp(calls[k], s, t)
               /\ calls[k].target_capture = t
               /\ LET rewrites == { j \in (s + 1)..t :
                                      navLog[j].ok /\ navLog[j].locale = source_locale }
                  IN  /\ rewrites = {} => calls[k].source_capture = s
                      /\ rewrites # {} => calls[k].source_capture \in rewrites
               /\ navLog[calls[k].source_capture].route = calls[k].route
               /\ calls[k].source_capture \in s..t

\* On the site whose routes / and /index share their file names, both routes
\* were analyzed for two target locales other than the source locale: the
\* files of the second route were written by its own captures.
C29_Witness ==
    /\ site = "names"
    /\ target_locales = <<"fr", "es">>
    /\ \E k, l \in DOMAIN calls :
           /\ calls[k].route = "/" /\ calls[l].route = "/index"
           /\ calls[l].target_locale = "es"
           /\ calls[k].source_screenshot = calls[l].source_screenshot
           /\ calls[k].source_capture < calls[l].source_capture
           /\ navLog[calls[l].source_capture].side = "source"
           /\ navLog[calls[l].source_capture].route = "/index"

\* The source locale was the first target locale: the call for the second
\* target locale was handed, as the source screenshot, the capture of the
\* first target leg.
OverlapScenario ==
    /\ target_locales = <<"en", "fr">>
    /\ \E k \in DOMAIN calls :
           /\ calls[k].target_locale = "fr"
           /\ navLog[calls[k].source_capture].side = "target"

====
